---- MODULE Spec2Model ----
(***************************************************************************)
(* Verification model of the data synchronisation engine of               *)
(* node-app-backend: credential caches, upstream clients (retry wrappers, *)
(* bulk export polling) and the per-domain sync orchestrators.            *)
(***************************************************************************)
EXTENDS Integers, Sequences, FiniteSets, TLC

(***************************************************************************)
(* Bounds of the model.                                                    *)
(***************************************************************************)
MaxClockTicks == 3
MaxTokens == 2
MaxEntities == 2
MaxTasks == 8
MaxTriggers == 2
MaxRequests == 4
MaxSignals == 2
MaxDays == 4
MaxPageSize == 3
DaysPerMonth == 2
MaxVerifiers == 3
MaxLogins == 2
MaxArrivals == 7
MaxJobs == 2

(***************************************************************************)
(* Program constants.                                                      *)
(***************************************************************************)
SafetyMarginSec == 60
MsPerSec == 1000
TokenMaxRetries == 3

(***************************************************************************)
(* Environment granularity: the clock moves in steps of ClockStepMs and    *)
(* the credential endpoints hand out lifetimes from ExpiresInChoices.      *)
(***************************************************************************)
ClockStepMs == 30000
ExpiresInChoices == {90, 150}

NoToken == 0
\* (undefined - 60) * 1000 is NaN, and now < NaN is false for every now
NaN == -1
Callers == {"c1", "c2"}
Providers == {"dynamics", "zoho"}

VARIABLES
  provider,      \* which credential cache this behaviour exercises
  credsOk,       \* config holds the provider's credentials
  clock,         \* Date.now(), in ms
  cachedToken,   \* module-level cachedToken (NoToken = null)
  tokenExpiry,   \* module-level tokenExpiry
  issued,        \* token id -> instant (ms) at which the provider expires it
  caller,        \* per caller: position inside getAuthToken / getZohoAccessToken
  \* ---- retry wrappers ----
  wrapper,       \* which ...WithRetry function runs
  urlConfigured, \* config holds the endpoint the call needs
  script,        \* what the upstream answers to the 1st, 2nd, ... request
  attempt,       \* loop variable of the wrapper
  requests,      \* HTTP requests sent so far
  rpc,           \* position of the wrapper
  rresult,       \* value the wrapper returned
  \* ---- bulk export job polling ----
  pollConfigured,\* config holds analyticsUrl, workspaceId and orgId
  attempts,      \* `attempts` of getRevenueReservationBulkExportData
  pollRequests,  \* poll requests sent so far
  pollLast,      \* what the latest poll request met
  pollPc,        \* position of the polling loop
  pollResult,    \* how the polling ended
  \* ---- sync orchestrators ----
  domain,        \* the metric family whose sync runs
  mode,          \* "sequential": one run after the other; "racing": overlapping
  answer,        \* what the upstream answers per (entity, date) scope
  tokenOutcome,  \* per run: what getDynamicsToken / getZohoToken gives
  fault,         \* which store write of a run raises a non-duplicate error
  wall,          \* wall clock read by `new Date()`
  store,         \* the domain's collection
  projects,      \* the Project collection
  run,           \* per run: locals of the sync function and its position
  \* ---- the concurrency limiter on its own ----
  limiter,       \* p-limit's queue, the tasks in flight and those finished
  \* ---- the scheduler ----
  sched,         \* syncJob, the position of the cron callback and its results
  \* ---- the server process ----
  server,        \* position of startServer, open requests, signals, exit code
  \* ---- the detail reports ----
  detail,        \* the documents, the page size, the pages fetched so far
  \* ---- one-time passwords ----
  otp,           \* the code stored in Redis and the verification requests
  \* ---- login lockout ----
  login          \* the failed-attempt counter in Redis and the login requests

tokenVars == <<provider, credsOk, clock, cachedToken, tokenExpiry, issued, caller>>
retryVars == <<wrapper, urlConfigured, script, attempt, requests, rpc, rresult>>

pollVars == <<pollConfigured, attempts, pollRequests, pollLast, pollPc, pollResult>>
syncVars == <<domain, mode, answer, tokenOutcome, fault, wall, store, projects, run>>

vars == <<provider, credsOk, clock, cachedToken, tokenExpiry, issued, caller,
          wrapper, urlConfigured, script, attempt, requests, rpc, rresult,
          pollConfigured, attempts, pollRequests, pollLast, pollPc, pollResult,
          domain, mode, answer, tokenOutcome, fault, wall, store, projects, run,
          limiter, sched, server, detail, otp, login>>

\* the variables of the components added to the four above
extraVars == <<limiter, sched, server, detail, otp, login>>

nonTokenVars == <<retryVars, pollVars, syncVars, extraVars>>
nonRetryVars == <<tokenVars, pollVars, syncVars, extraVars>>
nonPollVars == <<tokenVars, retryVars, syncVars, extraVars>>
nonSyncVars == <<tokenVars, retryVars, pollVars, extraVars>>
coreVars == <<tokenVars, retryVars, pollVars, syncVars>>

(***************************************************************************)
(* Credential cache                                                        *)
(***************************************************************************)
IdleCaller == [pc |-> "idle", now |-> 0, attempt |-> 0, resp |-> "none",
               respTok |-> NoToken, respExpIn |-> 0,
               ret |-> NoToken, retAt |-> 0, fromCache |-> FALSE]

\* tokenExpiry = now + (response.data.expires_in - 60) * 1000
ComputeExpiryNoMargin(now, expiresIn) == now + expiresIn * MsPerSec

ComputeExpiry(now, expiresIn) == now + (expiresIn - SafetyMarginSec) * MsPerSec

\* if (cachedToken && now < tokenExpiry) return cachedToken;
CacheValid(now) == cachedToken # NoToken /\ now < tokenExpiry

NextTokenId == Cardinality(DOMAIN issued) + 1

TokenIdle ==
  /\ provider = "dynamics"
  /\ credsOk = TRUE
  /\ clock = 0
  /\ cachedToken = NoToken
  /\ tokenExpiry = 0
  /\ issued = << >>
  /\ caller = [c \in Callers |-> IdleCaller]

TokenStart ==
  /\ provider \in Providers
  /\ credsOk \in BOOLEAN
  /\ clock = 0
  /\ cachedToken = NoToken
  /\ tokenExpiry = 0
  /\ issued = << >>
  /\ caller = [c \in Callers |-> IdleCaller]

\* Entry of getAuthToken / getZohoAccessToken up to the first await.
GetTokenEnter(c) ==
  /\ caller[c].pc \in {"idle", "returned", "threw"}
  /\ IF CacheValid(clock)
       THEN caller' = [caller EXCEPT ![c] = [IdleCaller EXCEPT !.pc = "returned",
                           !.now = clock, !.ret = cachedToken, !.retAt = clock,
                           !.fromCache = TRUE]]
       ELSE IF ~credsOk
         THEN caller' = [caller EXCEPT ![c] = [IdleCaller EXCEPT !.pc = "returned",
                           !.now = clock, !.ret = NoToken, !.retAt = clock]]
         ELSE caller' = [caller EXCEPT ![c] = [IdleCaller EXCEPT !.pc = "exchanging",
                           !.now = clock, !.attempt = 1]]
  /\ UNCHANGED <<provider, credsOk, clock, cachedToken, tokenExpiry, issued>>
  /\ UNCHANGED nonTokenVars

\* The provider answers the credential exchange with a fresh token that it
\* will expire expires_in seconds after this instant.
ProviderIssues(c) ==
  /\ caller[c].pc = "exchanging"
  /\ caller[c].resp = "none"
  /\ NextTokenId <= MaxTokens
  /\ \E e \in ExpiresInChoices :
       /\ issued' = Append(issued, clock + e * MsPerSec)
       /\ caller' = [caller EXCEPT ![c].resp = "ok", ![c].respTok = NextTokenId,
                                   ![c].respExpIn = e]
  /\ UNCHANGED <<provider, credsOk, clock, cachedToken, tokenExpiry>>
  /\ UNCHANGED nonTokenVars

\* Ways the exchange can fail: an authentication rejection (400/401),
\* another error status, no response at all, or a 200 body without
\* access_token.
ExchangeFailures == {"auth", "status", "network", "nobody"}

\* The awaited axios.post settles with a token: both module variables are
\* assigned in the same synchronous step and the token is returned.
StoreToken(c) ==
  /\ caller[c].pc = "exchanging"
  /\ caller[c].resp = "ok"
  /\ cachedToken' = caller[c].respTok
  /\ tokenExpiry' = ComputeExpiry(caller[c].now, caller[c].respExpIn)
  /\ caller' = [caller EXCEPT ![c] = [IdleCaller EXCEPT !.pc = "returned",
                              !.ret = caller[c].respTok, !.retAt = clock]]
  /\ UNCHANGED <<provider, credsOk, clock, issued>>
  /\ UNCHANGED nonTokenVars

\* the same settlement, were the cache reset whenever an exchange fails
ExchangeFailedClearsCache(c) ==
  /\ caller[c].pc = "exchanging"
  /\ caller[c].resp = "none"
  /\ \E f \in ExchangeFailures :
       /\ cachedToken' = NoToken
       /\ tokenExpiry' = 0
       /\ IF provider = "dynamics"
            THEN caller' = [caller EXCEPT ![c] = [IdleCaller EXCEPT
                               !.pc = IF f = "nobody" THEN "returned" ELSE "threw",
                               !.retAt = clock]]
            ELSE IF f = "auth" \/ caller[c].attempt >= TokenMaxRetries
                   THEN caller' = [caller EXCEPT ![c] = [IdleCaller EXCEPT !.pc = "threw"]]
                   ELSE caller' = [caller EXCEPT ![c].pc = "sleeping"]
  /\ UNCHANGED <<provider, credsOk, clock, issued>>
  /\ UNCHANGED nonTokenVars

\* The awaited axios.post settles with a failure.  getAuthToken lets the
\* rejection escape; getZohoAccessToken stops on 400/401, otherwise sleeps
\* and tries again while attempt < maxRetries, and finally throws.
ExchangeFailed(c) ==
  /\ caller[c].pc = "exchanging"
  /\ caller[c].resp = "none"
  /\ \E f \in ExchangeFailures :
       IF provider = "dynamics"
         THEN \* a 200 without access_token is stored as it comes: undefined
              IF f = "nobody"
                THEN /\ cachedToken' = NoToken
                     /\ tokenExpiry' = NaN
                     /\ caller' = [caller EXCEPT ![c] = [IdleCaller EXCEPT
                                      !.pc = "returned", !.retAt = clock]]
                ELSE /\ caller' = [caller EXCEPT ![c] = [IdleCaller EXCEPT !.pc = "threw"]]
                     /\ UNCHANGED <<cachedToken, tokenExpiry>>
         ELSE /\ IF f = "auth" \/ caller[c].attempt >= TokenMaxRetries
                   THEN caller' = [caller EXCEPT ![c] = [IdleCaller EXCEPT !.pc = "threw"]]
                   ELSE caller' = [caller EXCEPT ![c].pc = "sleeping"]
              /\ UNCHANGED <<cachedToken, tokenExpiry>>
  /\ UNCHANGED <<provider, credsOk, clock, issued>>
  /\ UNCHANGED nonTokenVars

\* The back-off sleep of getZohoAccessToken ends; the next attempt reuses
\* the `now` read at entry.
RetryExchange(c) ==
  /\ caller[c].pc = "sleeping"
  /\ caller' = [caller EXCEPT ![c].pc = "exchanging", ![c].attempt = @ + 1]
  /\ UNCHANGED <<provider, credsOk, clock, cachedToken, tokenExpiry, issued>>
  /\ UNCHANGED nonTokenVars

Tick ==
  /\ clock < MaxClockTicks * ClockStepMs
  /\ clock' = clock + ClockStepMs
  /\ UNCHANGED <<provider, credsOk, cachedToken, tokenExpiry, issued, caller>>
  /\ UNCHANGED nonTokenVars

(***************************************************************************)
(* Upstream clients: single calls and their retry wrappers                 *)
(***************************************************************************)
RetryMax == 3

Wrappers == {"bankGroup", "paidout", "procurement", "salesCollection"}

\* What one request can meet: a 2xx answer, a 4xx answer, a 500, another
\* 5xx, or no response at all (time-out, connection error).
Outcomes == {"ok", "s4xx", "s500", "s503", "net"}

HasResponse(o) == o # "net"
StatusBelow500(o) == o = "s4xx"

\* The catch block of get...: `if (err.response && err.response.status < 500)
\* return null; throw error;`, preceded in getPaidoutSummary by
\* `if (err.response?.status === 500) return [];`.  A missing endpoint URL
\* throws inside the try before any request and has no response.
CallOnceRetry4xx(w, configured, o) ==
  IF ~configured THEN "throw"
  ELSE IF o = "ok" THEN "data"
  ELSE IF w = "paidout" /\ o = "s500" THEN "empty"
  ELSE "throw"

CallOnce(w, configured, o) ==
  IF ~configured THEN "throw"
  ELSE IF o = "ok" THEN "data"
  ELSE IF w = "paidout" /\ o = "s500" THEN "empty"
  ELSE IF HasResponse(o) /\ StatusBelow500(o) THEN "null"
  ELSE "throw"

\* `if (attempt === maxRetries) return null;`
LastAttemptEarly(a) == a >= RetryMax - 1

LastAttempt(a) == a = RetryMax

NoResult == [kind |-> "none", from |-> 0]

RetryStart ==
  /\ wrapper \in Wrappers
  /\ urlConfigured \in BOOLEAN
  /\ script \in [1..RetryMax -> Outcomes]
  /\ attempt = 1
  /\ requests = 0
  /\ rpc = "calling"
  /\ rresult = NoResult

RetryIdle ==
  /\ wrapper = "bankGroup"
  /\ urlConfigured = TRUE
  /\ script = [i \in 1..RetryMax |-> "ok"]
  /\ attempt = 0
  /\ requests = 0
  /\ rpc = "idle"
  /\ rresult = NoResult

\* One pass of the for loop: the call, and what the wrapper does with it.
RetryAttempt ==
  /\ rpc = "calling"
  /\ attempt <= RetryMax
  /\ LET sent == IF urlConfigured THEN requests + 1 ELSE requests
         r == CallOnce(wrapper, urlConfigured, script[attempt])
     IN /\ requests' = sent
        /\ IF r # "throw"
             THEN /\ rpc' = "done"
                  /\ rresult' = [kind |-> r, from |-> IF r = "data" THEN sent ELSE 0]
             ELSE IF LastAttempt(attempt)
               THEN /\ rpc' = "done"
                    /\ rresult' = [kind |-> "null", from |-> 0]
               ELSE /\ rpc' = "sleeping"
                    /\ UNCHANGED rresult
  /\ UNCHANGED <<wrapper, urlConfigured, script, attempt>>
  /\ UNCHANGED nonRetryVars

\* `await new Promise(r => setTimeout(r, attempt * 2000))` is over.
RetrySleepOver ==
  /\ rpc = "sleeping"
  /\ attempt' = attempt + 1
  /\ rpc' = "calling"
  /\ UNCHANGED <<wrapper, urlConfigured, script, requests, rresult>>
  /\ UNCHANGED nonRetryVars

RetryNext ==
  \/ RetryAttempt
  \/ RetrySleepOver

(***************************************************************************)
(* Bulk export job polling (getRevenueReservationBulkExportData)            *)
(***************************************************************************)
maxAttempts == 30

\* What one poll request can meet: the finished job's rows, a body with
\* status "failure", a body that is neither (still processing), a 400 with
\* errorCode 8121 or 8122, another status below 500, a 5xx, no response.
PollOutcomes == {"rows", "failure", "pending", "e8121", "e8122",
                 "s4xx", "s5xx", "net"}

\* What the loop body does with one poll: return the rows, throw, or sleep
\* and go round again.
PollReactStrict(o) ==
  CASE o = "rows" -> "return"
    [] o = "failure" -> "jobFailed"
    [] o = "pending" -> "continue"
    [] o \in {"e8121", "e8122"} -> "requestError"
    [] OTHER -> "requestError"

PollReact(o) ==
  CASE o = "rows" -> "return"
    [] o = "failure" -> "jobFailed"
    [] o = "pending" -> "continue"
    [] o \in {"e8121", "e8122"} -> "continue"
    [] OTHER -> "requestError"

\* `while (attempts < maxAttempts)`
PollBudgetLeft(n) == n < maxAttempts

PollStart ==
  /\ pollConfigured \in BOOLEAN
  /\ attempts = 0
  /\ pollRequests = 0
  /\ pollLast = "none"
  /\ pollPc = "entry"
  /\ pollResult = "none"

PollIdle ==
  /\ pollConfigured = TRUE
  /\ attempts = 0
  /\ pollRequests = 0
  /\ pollLast = "none"
  /\ pollPc = "idle"
  /\ pollResult = "none"

\* Entry: the configuration check, then the loop condition for the first time.
PollEnter ==
  /\ pollPc = "entry"
  /\ IF pollConfigured
       THEN pollPc' = "loop" /\ UNCHANGED pollResult
       ELSE pollPc' = "threw" /\ pollResult' = "configError"
  /\ UNCHANGED <<pollConfigured, attempts, pollRequests, pollLast>>
  /\ UNCHANGED nonPollVars

\* The loop condition holds: attempts++ and the GET is sent.
PollSend ==
  /\ pollPc = "loop"
  /\ PollBudgetLeft(attempts)
  /\ attempts' = attempts + 1
  /\ pollRequests' = pollRequests + 1
  /\ pollPc' = "waiting"
  /\ UNCHANGED <<pollConfigured, pollLast, pollResult>>
  /\ UNCHANGED nonPollVars

\* The GET settles.
PollSettle ==
  /\ pollPc = "waiting"
  /\ \E o \in PollOutcomes :
       /\ pollLast' = o
       /\ CASE PollReact(o) = "return" -> pollPc' = "returned" /\ pollResult' = "rows"
            [] PollReact(o) = "continue" -> pollPc' = "sleeping" /\ UNCHANGED pollResult
            [] OTHER -> pollPc' = "threw" /\ pollResult' = PollReact(o)
  /\ UNCHANGED <<pollConfigured, attempts, pollRequests>>
  /\ UNCHANGED nonPollVars

\* `await sleep(pollInterval)` is over: back to the loop condition.
PollSleepOver ==
  /\ pollPc = "sleeping"
  /\ pollPc' = "loop"
  /\ UNCHANGED <<pollConfigured, attempts, pollRequests, pollLast, pollResult>>
  /\ UNCHANGED nonPollVars

\* The loop condition fails: the time-out error is thrown.
PollTimeout ==
  /\ pollPc = "loop"
  /\ ~PollBudgetLeft(attempts)
  /\ pollPc' = "threw"
  /\ pollResult' = "timeout"
  /\ UNCHANGED <<pollConfigured, attempts, pollRequests, pollLast>>
  /\ UNCHANGED nonPollVars

PollNext ==
  \/ PollEnter
  \/ PollSend
  \/ PollSettle
  \/ PollSleepOver
  \/ PollTimeout

(***************************************************************************)
(* Sync orchestrators: the world they run in                               *)
(***************************************************************************)
Domains == {"finance", "procurement", "expense", "sales", "revenue"}

RunIds == {1, 2}

\* The Entity collection (ids stand for the entity codes); 0 stands for
\* "no entity": a call without DataAreaId, a row with entity = null.
Entities == 1..MaxEntities
NoEntity == 0
NoProject == 0

\* The days a run covers: the sync date, or the past `days` days of the
\* expense sync (its argument; the runs modelled are for one day).
days == 1
Dates == 1..days
SyncDate == 1

FinanceLimit == 6
ProcurementLimit == 20
ExpenseLimit == 20

Concurrency(d) ==
  CASE d = "finance" -> FinanceLimit
    [] d = "procurement" -> ProcurementLimit
    [] OTHER -> ExpenseLimit

WrapperOf(d) ==
  CASE d = "finance" -> "bankGroup"
    [] d = "procurement" -> "procurement"
    [] d = "expense" -> "paidout"
    [] d = "sales" -> "salesCollection"
    [] OTHER -> "revenue"

DataSourceOf(d) ==
  CASE d = "finance" -> "MSD Bank Group Summary sync"
    [] d = "procurement" -> "Dynamics365"
    [] d = "expense" -> "MSD Paidout API sync"
    [] d = "sales" -> "ZOHO SALES API"
    [] OTHER -> "ZohoAnalytics"

\* The scopes a run of the domain asks the upstream about.
ScopesOf(d) ==
  CASE d = "finance" -> (Entities \cup {NoEntity}) \X {SyncDate}
    [] d = "procurement" -> Entities \X {SyncDate}
    [] d = "expense" -> Entities \X Dates
    [] OTHER -> {<<NoEntity, SyncDate>>}

\* `Entity.find().lean()`: the entities on record, the ones the upstream
\* is asked about one by one
EntityIds == {sc[1] : sc \in DOMAIN answer} \ {NoEntity}

\* The tasks handed to p-limit, in the order of entities.map / the nested
\* loops of the expense sync.
TaskList(d) ==
  IF d = "expense"
    THEN [k \in 1..(Cardinality(EntityIds) * days) |->
            <<((k - 1) \div days) + 1, ((k - 1) % days) + 1>>]
    ELSE IF d \in {"finance", "procurement"}
      THEN [k \in 1..Cardinality(EntityIds) |-> <<k, SyncDate>>]
      ELSE << >>

\* The whole ...WithRetry loop as a function of what the upstream answers
\* to the successive requests.
RECURSIVE WithRetryFrom(_, _, _)
WithRetryFrom(w, scr, a) ==
  LET r == CallOnce(w, TRUE, scr[a])
  IN IF r # "throw" THEN r
     ELSE IF LastAttempt(a) THEN "null"
     ELSE WithRetryFrom(w, scr, a + 1)

WithRetry(w, scr) == WithRetryFrom(w, scr, 1)

AllOk == [i \in 1..RetryMax |-> "ok"]
AllNet == [i \in 1..RetryMax |-> "net"]
All500 == [i \in 1..RetryMax |-> "s500"]
Rejected == [i \in 1..RetryMax |-> IF i = 1 THEN "s4xx" ELSE "ok"]
ThirdTime == [i \in 1..RetryMax |-> IF i < RetryMax THEN "s503" ELSE "ok"]

\* Bank group summary bodies: rows of (BankGroupId, totalAmount).
BankRowsA == << [BankGroupId |-> "ES", totalAmount |-> 100],
                [BankGroupId |-> "NonES", totalAmount |-> 50] >>
BankRowsZero == << [BankGroupId |-> "ES", totalAmount |-> 0],
                   [BankGroupId |-> "NonES", totalAmount |-> 0] >>
BankRowsOther == << [BankGroupId |-> "TR", totalAmount |-> 7] >>

FinanceAnswers ==
  { [script |-> AllOk, data |-> BankRowsA],
    [script |-> AllOk, data |-> BankRowsZero],
    [script |-> AllOk, data |-> << >>],
    [script |-> ThirdTime, data |-> BankRowsOther],
    [script |-> AllNet, data |-> << >>],
    [script |-> Rejected, data |-> << >>] }

\* Purchase order bodies: items of the Responses array.  `valid` says that
\* PurchId, vendorAccount, vendorName and totalAmount are all present.
ToUpperCase(id) == IF id = "po1" THEN "PO1" ELSE id

OrdersA == << [PurchId |-> "po1", valid |-> TRUE, totalAmount |-> 10] >>
OrdersB == << [PurchId |-> "PO1", valid |-> TRUE, totalAmount |-> 20],
              [PurchId |-> "PO2", valid |-> TRUE, totalAmount |-> 5] >>
OrdersBad == << [PurchId |-> "PO2", valid |-> FALSE, totalAmount |-> 0] >>

ProcurementAnswers ==
  { [script |-> AllOk, data |-> OrdersA],
    [script |-> ThirdTime, data |-> OrdersB],
    [script |-> AllOk, data |-> OrdersBad],
    [script |-> AllOk, data |-> << >>],
    [script |-> All500, data |-> << >>],
    [script |-> Rejected, data |-> << >>] }

\* Paid-out bodies: items of the Response array.
PaidA == << [OperationPaidout |-> 10, LandPurchasePaidout |-> 0,
             ConstructionPaidout |-> 5, CashExpense |-> 1] >>

ExpenseAnswers ==
  { [script |-> AllOk, data |-> PaidA],
    [script |-> AllOk, data |-> << >>],
    [script |-> All500, data |-> << >>],
    [script |-> AllNet, data |-> << >>],
    [script |-> Rejected, data |-> << >>] }

(***************************************************************************)
(* The store: documents, filters, upserts, unique indexes                  *)
(***************************************************************************)
\* A document of a metric collection.  Fields a domain does not have keep
\* their default.
DefaultRow == [entity |-> NoEntity, project |-> NoProject, special |-> "null",
               st |-> "", date |-> 0, src |-> "", purchId |-> "",
               v |-> << >>, at |-> 0]

Matches(row, filter) == \A f \in DOMAIN filter : row[f] = filter[f]

\* `$set: fields` on a document
SetFields(row, fields) ==
  [f \in DOMAIN row |-> IF f \in DOMAIN fields THEN fields[f] ELSE row[f]]

NextRowId == Cardinality(store) + 1

\* the document an upsert inserts: defaults, the filter's equalities, $set
Upserted(filter, fields) ==
  SetFields(SetFields(DefaultRow @@ [id |-> NextRowId], filter), fields)

\* The fields of the unique index the persistence layer enforces for a
\* document of the domain (none for revenue reservations, and none for the
\* normal rows of sales collections).
UniqueFields(d, row) ==
  CASE d \in {"finance", "expense"} -> {"entity", "date", "src"}
    [] d = "procurement" -> {"purchId"}
    [] d = "sales" /\ row.special # "null" -> {"special", "date"}
    [] OTHER -> {}

SameOn(fs, a, b) == \A f \in fs : a[f] = b[f]

\* a collection without unique indexes refuses no insert
DuplicatesNone(d, row) == {}

\* documents that stop `row` from being inserted (error 11000)
Duplicates(d, row) ==
  IF UniqueFields(d, row) = {} THEN {}
  ELSE {x \in store : x.id # row.id /\ UniqueFields(d, x) = UniqueFields(d, row)
                      /\ SameOn(UniqueFields(d, row), x, row)}

\* the lookup of a filter: the id of the first document matching, 0 for none
AnyMatchBlind(filter) == 0

AnyMatch(filter) ==
  IF \E x \in store : Matches(x, filter)
    THEN (CHOOSE x \in store : Matches(x, filter) /\
            \A y \in store : Matches(y, filter) => x.id <= y.id).id
    ELSE 0

RowById(i) == CHOOSE x \in store : x.id = i

(***************************************************************************)
(* Record transformers of the entity-scoped domains                        *)
(***************************************************************************)
RECURSIVE SumAmounts(_, _)
\* sum of totalAmount over the rows whose BankGroupId is in groups
SumAmounts(rows, groups) ==
  IF rows = << >> THEN 0
  ELSE (IF Head(rows).BankGroupId \in groups THEN Head(rows).totalAmount ELSE 0)
         + SumAmounts(Tail(rows), groups)

BankGroupsIn(rows) == {rows[i].BankGroupId : i \in DOMAIN rows}

\* the same transformer without the `if (total === 0) return []` line
FinanceTransformKeepZero(rows, e, date, stamp) ==
  << [entity |-> e, date |-> date, src |-> DataSourceOf("finance"),
      v |-> [EscrowReserve |-> SumAmounts(rows, {"ES"}),
             NonEscrowReserve |-> SumAmounts(rows, {"NonES"}),
             OtherReserve |-> SumAmounts(rows, BankGroupsIn(rows) \ {"ES", "NonES"}),
             TotalReserve |-> SumAmounts(rows, BankGroupsIn(rows))],
      at |-> stamp] >>

\* transformApiData of the finance reserve sync: no record when the total
\* is zero, else one record with the per-group sums.
FinanceTransform(rows, e, date, stamp) ==
  IF SumAmounts(rows, BankGroupsIn(rows)) = 0 THEN << >>
  ELSE << [entity |-> e, date |-> date, src |-> DataSourceOf("finance"),
           v |-> [EscrowReserve |-> SumAmounts(rows, {"ES"}),
                  NonEscrowReserve |-> SumAmounts(rows, {"NonES"}),
                  OtherReserve |-> SumAmounts(rows, BankGroupsIn(rows) \ {"ES", "NonES"}),
                  TotalReserve |-> SumAmounts(rows, BankGroupsIn(rows))],
           at |-> stamp] >>

\* the updateOne operation both finance bulk writes build from a record
FinanceOp(rec) ==
  [filter |-> [entity |-> rec.entity, date |-> rec.date, src |-> rec.src],
   fields |-> rec]

\* transformApiData of the procurement sync: items lacking a required field
\* are dropped, the others become purchase orders.
RECURSIVE ProcurementTransform(_, _, _)
ProcurementTransform(items, e, stamp) ==
  IF items = << >> THEN << >>
  ELSE LET it == Head(items)
           rest == ProcurementTransform(Tail(items), e, stamp)
       IN IF ~it.valid THEN rest
          ELSE << [purchId |-> ToUpperCase(it.PurchId), entity |-> e,
                   src |-> DataSourceOf("procurement"),
                   v |-> [totalAmount |-> it.totalAmount], at |-> stamp] >> \o rest

\* The duplicate filter of the procurement task, folded over the records:
\* acc = [ids: existingIdsSet, items: validItems, skipped: recordsSkipped].
RECURSIVE StageOrdersNoAdd(_, _)
StageOrdersNoAdd(records, acc) ==
  IF records = << >> THEN acc
  ELSE LET rec == Head(records)
       IN IF rec.purchId \in acc.ids
            THEN StageOrdersNoAdd(Tail(records), [acc EXCEPT !.skipped = @ + 1])
            ELSE StageOrdersNoAdd(Tail(records),
                   [acc EXCEPT !.items = Append(@, rec)])

RECURSIVE StageOrders(_, _)
StageOrders(records, acc) ==
  IF records = << >> THEN acc
  ELSE LET rec == Head(records)
       IN IF rec.purchId \in acc.ids
            THEN StageOrders(Tail(records), [acc EXCEPT !.skipped = @ + 1])
            ELSE StageOrders(Tail(records),
                   [acc EXCEPT !.items = Append(@, rec),
                               !.ids = @ \cup {rec.purchId}])

\* transformApiData of the expense sync: the first item of the response, or
\* an all-zero record when there is none.
ExpenseTransform(items, e, date, stamp) ==
  [entity |-> e, date |-> date, src |-> DataSourceOf("expense"),
   v |-> IF items = << >>
           THEN [Ops_Expenses |-> 0, Land_Expenses |-> 0,
                 Construction_Expenses |-> 0, cash_expense |-> 0]
           ELSE [Ops_Expenses |-> items[1].OperationPaidout,
                 Land_Expenses |-> items[1].LandPurchasePaidout,
                 Construction_Expenses |-> items[1].ConstructionPaidout,
                 cash_expense |-> items[1].CashExpense],
   at |-> stamp]

ExpenseOp(rec) ==
  [filter |-> [entity |-> rec.entity, date |-> rec.date, src |-> rec.src],
   fields |-> rec]

(***************************************************************************)
(* Strings, as sequences of characters                                     *)
(***************************************************************************)
UpperLetters == <<"A", "D", "E", "G", "K", "L", "M", "N", "O", "R", "S", "T",
                  "U", "V", "W", "Y">>
LowerLetters == <<"a", "d", "e", "g", "k", "l", "m", "n", "o", "r", "s", "t",
                  "u", "v", "w", "y">>
DigitChars == {"0", "1", "2", "3", "4", "5", "6", "7", "8", "9"}

IsUpperCh(c) == \E i \in DOMAIN UpperLetters : UpperLetters[i] = c
IsLowerCh(c) == \E i \in DOMAIN LowerLetters : LowerLetters[i] = c
ToLowerCh(c) ==
  IF IsUpperCh(c)
    THEN LowerLetters[CHOOSE i \in DOMAIN UpperLetters : UpperLetters[i] = c]
    ELSE c
ToUpperCh(c) ==
  IF IsLowerCh(c)
    THEN UpperLetters[CHOOSE i \in DOMAIN LowerLetters : LowerLetters[i] = c]
    ELSE c
ToLowerStr(str) == [i \in DOMAIN str |-> ToLowerCh(str[i])]
ToUpperStr(str) == [i \in DOMAIN str |-> ToUpperCh(str[i])]

\* String.prototype.trim
RECURSIVE TrimLeft(_)
TrimLeft(str) ==
  IF str # << >> /\ Head(str) = " " THEN TrimLeft(Tail(str)) ELSE str
RECURSIVE TrimRight(_)
TrimRight(str) ==
  IF str # << >> /\ str[Len(str)] = " "
    THEN TrimRight(SubSeq(str, 1, Len(str) - 1)) ELSE str
Trim(str) == TrimRight(TrimLeft(str))

\* .replace(/\s+/g, ' ')
RECURSIVE CollapseSpaces(_)
CollapseSpaces(str) ==
  IF Len(str) < 2 THEN str
  ELSE IF str[1] = " " /\ str[2] = " " THEN CollapseSpaces(Tail(str))
  ELSE <<str[1]>> \o CollapseSpaces(Tail(str))

\* /w1\s*w2/i.test(str), for lower-case words w1 and w2
MatchesWords(str, w1, w2) ==
  LET low == ToLowerStr(str)
  IN \E i \in 1..Len(str) : \E j \in (i + Len(w1))..(Len(str) + 1) :
       /\ i + Len(w1) - 1 <= Len(str)
       /\ SubSeq(low, i, i + Len(w1) - 1) = w1
       /\ \A k \in (i + Len(w1))..(j - 1) : low[k] = " "
       /\ j + Len(w2) - 1 <= Len(str)
       /\ SubSeq(low, j, j + Len(w2) - 1) = w2

IsCodeCh(c) == IsUpperCh(c) \/ c \in DigitChars
\* projectName.replace(/[^A-Z0-9]/g, '').substring(0, 10).toUpperCase() || 'PROJECT'
ProjectCode(name) ==
  LET kept == SelectSeq(name, IsCodeCh)
      cut == SubSeq(kept, 1, IF Len(kept) < 10 THEN Len(kept) ELSE 10)
  IN IF cut = << >> THEN <<"P", "R", "O", "J", "E", "C", "T">> ELSE ToUpperStr(cut)

(***************************************************************************)
(* Record transformers of the Zoho domains                                 *)
(***************************************************************************)
\* the entity with entityCode 'LDP', owner of the projects created on the way
LdpEntity == 1

\* Project.findOne({ projectName: /^name$/i })
FindProject(name, projs) ==
  IF \E q \in projs : ToLowerStr(q.name) = ToLowerStr(name)
    THEN (CHOOSE q \in projs : /\ ToLowerStr(q.name) = ToLowerStr(name)
                               /\ \A y \in projs :
                                    ToLowerStr(y.name) = ToLowerStr(name) => q.id <= y.id).id
    ELSE NoProject

\* The schema checks Project.create runs: projectName of 2 to 100
\* characters, projectShortName of 2 to 10, projectCode unique.
ProjectValid(name, code, projs) ==
  /\ Len(Trim(name)) >= 2 /\ Len(Trim(name)) <= 100
  /\ Len(code) >= 2 /\ Len(code) <= 10
  /\ \A q \in projs : q.code # code

\* findOrCreateProject: the id of the project found or created (NoProject
\* when Project.create throws) and the Project collection afterwards.
FindOrCreateProject(name, projs) ==
  IF FindProject(name, projs) # NoProject
    THEN [id |-> FindProject(name, projs), projects |-> projs]
    ELSE IF ProjectValid(name, ProjectCode(name), projs)
      THEN [id |-> Cardinality(projs) + 1,
            projects |-> projs \cup {[id |-> Cardinality(projs) + 1, name |-> Trim(name),
                                      code |-> ProjectCode(name), entity |-> LdpEntity]}]
      ELSE [id |-> NoProject, projects |-> projs]

ProjectById(i, projs) == CHOOSE q \in projs : q.id = i

NoRecord == [none |-> TRUE]

\* transformApiRecord of the sales collection sync
SalesTransform(rec, stamp, projs) ==
  LET raw == Trim(rec.name)
      name == Trim(CollapseSpaces(raw))
      isNoValue == MatchesWords(name, <<"n", "o">>, <<"v", "a", "l", "u", "e">>)
      isGrandTotal == MatchesWords(name, <<"g", "r", "a", "n", "d">>,
                                        <<"s", "u", "m", "m", "a", "r", "y">>)
      base == [date |-> SyncDate, src |-> DataSourceOf("sales"), at |-> stamp,
               v |-> [escrowCollection |-> rec.escrow,
                      nonEscrowCollection |-> rec.nonEscrow]]
      fc == FindOrCreateProject(name, projs)
  IN IF raw = << >> THEN [out |-> NoRecord, projects |-> projs]
     ELSE IF isGrandTotal \/ isNoValue
       THEN [out |-> base @@ [entity |-> NoEntity, project |-> NoProject,
                              special |-> IF isGrandTotal THEN "Grand Summary"
                                                          ELSE "No Value"],
             projects |-> projs]
     ELSE IF fc.id = NoProject THEN [out |-> NoRecord, projects |-> projs]
     ELSE [out |-> base @@ [entity |-> ProjectById(fc.id, fc.projects).entity,
                            project |-> fc.id],
           projects |-> fc.projects]

\* the same operation, were the time of the sync part of the filter
SalesOpStamped(t) ==
  IF "special" \in DOMAIN t
    THEN [filter |-> [special |-> t.special, date |-> t.date, at |-> t.at], fields |-> t]
    ELSE [filter |-> [entity |-> t.entity, project |-> t.project, date |-> t.date,
                      at |-> t.at],
          fields |-> t]

\* the filter and $set document syncSalesCollectionData builds
SalesOp(t) ==
  IF "special" \in DOMAIN t
    THEN [filter |-> [special |-> t.special, date |-> t.date], fields |-> t]
    ELSE [filter |-> [entity |-> t.entity, project |-> t.project, date |-> t.date],
          fields |-> t]

\* transformApiRecord of the revenue reservation sync
RevenueTransform(rec, stamp, projs) ==
  LET name == Trim(rec.name)
      fc == FindOrCreateProject(name, projs)
  IN IF rec.name = << >> \/ rec.st = "" \/ ~rec.hasDate
       THEN [out |-> NoRecord, projects |-> projs]
     ELSE IF fc.id = NoProject THEN [out |-> NoRecord, projects |-> projs]
     ELSE [out |-> [project |-> fc.id, date |-> SyncDate, st |-> rec.st,
                    src |-> DataSourceOf("revenue"), at |-> stamp,
                    v |-> [reservedAmount |-> rec.reserved,
                           cancelledAmount |-> rec.cancelled]],
           projects |-> fc.projects]

RevenueOp(t) ==
  [filter |-> [project |-> t.project, st |-> t.st, date |-> t.date], fields |-> t]

(***************************************************************************)
(* The job-based revenue reservation fetch                                 *)
(***************************************************************************)
\* How an export job behaves when polled: what the i-th poll meets.
PollOutcomeAt(b, i) ==
  CASE b = "ready" -> "rows"
    [] b = "slow" -> IF i = 1 THEN "e8121" ELSE IF i = 2 THEN "e8122"
                     ELSE IF i = 3 THEN "pending" ELSE "rows"
    [] b = "fails" -> IF i = 1 THEN "pending" ELSE "failure"
    [] b = "never" -> "e8122"
    [] b = "pollNet" -> "net"
    [] OTHER -> "s4xx"

\* getRevenueReservationBulkExportData as a function of the job's behaviour
RECURSIVE PollJobFrom(_, _)
PollJobFrom(b, n) ==
  IF ~PollBudgetLeft(n) THEN "timeout"
  ELSE LET o == PollOutcomeAt(b, n + 1)
           re == PollReact(o)
       IN CASE re = "continue" -> PollJobFrom(b, n + 1)
            [] re = "return" -> "rows"
            [] re = "requestError" -> IF o = "s4xx" THEN "error4xx" ELSE "errorOther"
            [] OTHER -> re

PollJob(b) == PollJobFrom(b, 0)

\* getRevenueReservationData: create the job, poll it; an error that carries
\* a response with a status below 500 gives null, any other is rethrown.
GetRevenueReservationData(job) ==
  CASE job.create = "s4xx" -> "null"
    [] job.create # "ok" -> "throw"
    [] PollJob(job.poll) = "rows" -> "data"
    [] PollJob(job.poll) = "error4xx" -> "null"
    [] OTHER -> "throw"

\* getRevenueReservationDataWithRetry
RECURSIVE RevenueWithRetryFrom(_, _)
RevenueWithRetryFrom(jobs, a) ==
  LET r == GetRevenueReservationData(jobs[a])
  IN IF r # "throw" THEN r
     ELSE IF LastAttempt(a) THEN "null"
     ELSE RevenueWithRetryFrom(jobs, a + 1)

RevenueWithRetry(jobs) == RevenueWithRetryFrom(jobs, 1)

Job(c, b) == [create |-> c, poll |-> b]
AllJobs(j) == [i \in 1..RetryMax |-> j]

\* names the upstream rows carry
ProjectNames ==
  [grand |-> <<"G", "r", "a", "n", "d", " ", "S", "u", "m", "m", "a", "r", "y">>,
   noValue |-> <<"N", "o", " ", "V", "a", "l", "u", "e">>,
   sky |-> <<"S", "K", "Y", " ", "T", "w", "o">>,
   skyLower |-> <<"s", "k", "y", " ", "t", "w", "o">>,
   skySpaced |-> <<" ", "S", "K", "Y", " ", " ", "T", "w", "o">>,
   al |-> <<"A", "l">>]

SalesRec(n, e, ne) == [name |-> n, escrow |-> e, nonEscrow |-> ne]

SalesAnswers ==
  { [script |-> AllOk, data |-> <<SalesRec(ProjectNames.grand, 500, 300), SalesRec(ProjectNames.sky, 100, 50)>>],
    [script |-> ThirdTime,
     data |-> <<SalesRec(ProjectNames.skyLower, 1, 2), SalesRec(ProjectNames.skySpaced, 3, 4)>>],
    [script |-> AllOk,
     data |-> <<SalesRec(<< >>, 1, 1), SalesRec(ProjectNames.noValue, 0, 0), SalesRec(ProjectNames.al, 9, 9)>>],
    [script |-> AllOk, data |-> << >>],
    [script |-> AllNet, data |-> << >>],
    [script |-> Rejected, data |-> << >>] }

RevenueRec(n, st, d, res, can) ==
  [name |-> n, st |-> st, hasDate |-> d, reserved |-> res, cancelled |-> can]

RevenueRowsA == <<RevenueRec(ProjectNames.sky, "Team A", TRUE, 1000, 0),
                  RevenueRec(ProjectNames.skyLower, "Team B", TRUE, 500, 100)>>
RevenueRowsB == <<RevenueRec(ProjectNames.sky, "", TRUE, 10, 0),
                  RevenueRec(ProjectNames.sky, "Team A", TRUE, 20, 0)>>

RevenueAnswers ==
  { [script |-> AllJobs(Job("ok", "ready")), data |-> RevenueRowsA],
    [script |-> [i \in 1..RetryMax |-> IF i = 1 THEN Job("ok", "pollNet")
                                                 ELSE Job("ok", "slow")],
     data |-> RevenueRowsB],
    [script |-> AllJobs(Job("ok", "ready")), data |-> << >>],
    [script |-> AllJobs(Job("ok", "fails")), data |-> RevenueRowsA],
    [script |-> AllJobs(Job("ok", "never")), data |-> RevenueRowsA],
    [script |-> AllJobs(Job("s4xx", "ready")), data |-> RevenueRowsA],
    [script |-> AllJobs(Job("ok", "poll4xx")), data |-> RevenueRowsA],
    [script |-> AllJobs(Job("net", "ready")), data |-> RevenueRowsA] }

AnswersOf(d) ==
  CASE d = "finance" -> FinanceAnswers
    [] d = "procurement" -> ProcurementAnswers
    [] d = "expense" -> ExpenseAnswers
    [] d = "sales" -> SalesAnswers
    [] OTHER -> RevenueAnswers

(***************************************************************************)
(* Sync orchestrators: one run                                             *)
(***************************************************************************)
InitResult == [success |-> TRUE, entitiesProcessed |-> 0, recordsSaved |-> 0,
               recordsSkipped |-> 0, errors |-> << >>]

\* locals of one run: p-limit's queue and in-flight tasks, existingIdsSet,
\* bulkOps / validItems, the loop index over fetched records, the position
\* inside the write in progress and its counters, the result, and the
\* content of the collection when the run returned
IdleRun == [pc |-> "idle", stamp |-> 0, pending |-> << >>, active |-> {},
            existing |-> {}, ops |-> << >>, records |-> << >>, cur |-> 1,
            opi |-> 1, found |-> -1, upserted |-> 0, modified |-> 0,
            skipped |-> 0, werr |-> FALSE,
            res |-> InitResult, finalStore |-> {}]

\* result.success = result.errors.length === 0 || result.recordsSaved > 0
SuccessRule(res) == res.errors = << >> \/ res.recordsSaved > 0

\* The run returns its result.  Every sync but the finance reserve one
\* recomputes success on the way out of the try block.
Returned(rec, d) ==
  [rec EXCEPT !.pc = "done",
              !.res.success = IF d = "finance" THEN @ ELSE SuccessRule(rec.res)]

\* The outer catch block: success = false, the message is pushed.
Caught(rec, what) ==
  [rec EXCEPT !.pc = "done", !.res.success = FALSE,
              !.res.errors = Append(@, [kind |-> "sync", ref |-> what])]

\* The run is over: what the collection holds when the result is handed back.
Finished(rec) == [rec EXCEPT !.finalStore = store]

\* a write begins: nothing looked up, nothing counted yet
BeginWrite(rec, pc) ==
  [rec EXCEPT !.pc = pc, !.opi = 1, !.found = -1, !.upserted = 0,
              !.modified = 0, !.skipped = 0, !.werr = FALSE]

\* p-limit: the first `limit` tasks start at once, the others wait in line
FirstNUnbounded(seq, n) == seq

FirstN(seq, n) == [i \in 1..(IF Len(seq) < n THEN Len(seq) ELSE n) |-> seq[i]]
DropN(seq, n) == [i \in 1..(IF Len(seq) < n THEN 0 ELSE Len(seq) - n) |-> seq[i + n]]
Range(seq) == {seq[i] : i \in DOMAIN seq}

WithTasks(rec, d) ==
  [rec EXCEPT !.pc = "tasks",
              !.active = Range(FirstN(TaskList(d), Concurrency(d))),
              !.pending = DropN(TaskList(d), Concurrency(d))]

StartRun(r) ==
  /\ run[r].pc = "idle"
  /\ mode = "sequential" => \A q \in RunIds : q < r => run[q].pc = "done"
  /\ wall' = wall + 1
  /\ run' = [run EXCEPT ![r].pc = "token", ![r].stamp = wall + 1]
  /\ UNCHANGED <<domain, mode, answer, tokenOutcome, fault, store, projects>>
  /\ UNCHANGED nonSyncVars

\* the same await, were the `if (!token) throw` guard missing
TokenSettlesUnguarded(r) ==
  /\ run[r].pc = "token"
  /\ \E o \in {"ok", "null", "throw"} :
       /\ tokenOutcome' = [tokenOutcome EXCEPT ![r] = o]
       /\ run' = [run EXCEPT ![r] =
            CASE o = "throw" -> Finished(Caught(@, "token exchange failed"))
              [] OTHER -> [@ EXCEPT !.pc = IF domain \in {"sales", "revenue"}
                                             THEN "fetch" ELSE "entities"]]
  /\ UNCHANGED <<domain, mode, answer, fault, wall, store, projects>>
  /\ UNCHANGED nonSyncVars

\* `await getDynamicsToken()` / `await getZohoToken()` settles.
TokenSettles(r) ==
  /\ run[r].pc = "token"
  /\ \E o \in {"ok", "null", "throw"} :
       /\ tokenOutcome' = [tokenOutcome EXCEPT ![r] = o]
       /\ run' = [run EXCEPT ![r] =
            CASE o = "throw" -> Finished(Caught(@, "token exchange failed"))
              [] o = "null" -> Finished(Caught(@, "Failed to acquire token"))
              [] OTHER -> [@ EXCEPT !.pc = IF domain \in {"sales", "revenue"}
                                             THEN "fetch" ELSE "entities"]]
  /\ UNCHANGED <<domain, mode, answer, fault, wall, store, projects>>
  /\ UNCHANGED nonSyncVars

\* `await Entity.find().lean()` settles; the finance and expense syncs hand
\* their tasks to p-limit, the procurement sync first loads the ids.
LoadEntities(r) ==
  /\ run[r].pc = "entities"
  /\ run' = [run EXCEPT ![r] =
       IF domain = "procurement" THEN [@ EXCEPT !.pc = "snapshot"]
       ELSE WithTasks(@, domain)]
  /\ UNCHANGED <<domain, mode, answer, tokenOutcome, fault, wall, store, projects>>
  /\ UNCHANGED nonSyncVars

\* `await ProcurementPurchaseOrder.find({}, { purchId: 1 })` settles.
LoadSnapshot(r) ==
  /\ run[r].pc = "snapshot"
  /\ run' = [run EXCEPT ![r] =
       WithTasks([@ EXCEPT !.existing = {x.purchId : x \in store}], domain)]
  /\ UNCHANGED <<domain, mode, answer, tokenOutcome, fault, wall, store, projects>>
  /\ UNCHANGED nonSyncVars

\* What a task does when its ...WithRetry call gave no data (null): the
\* finance and procurement tasks return, the expense task stages an
\* all-zero record for the day.
NoDataReported(rec, d, t) ==
  LET told == [rec EXCEPT !.res.errors = Append(@, [kind |-> "entity", ref |-> t[1]])]
  IN IF d = "expense"
       THEN [told EXCEPT !.ops = Append(@, ExpenseOp(ExpenseTransform(<< >>, t[1], t[2],
                                                                      rec.stamp)))]
       ELSE told

NoData(rec, d, t) ==
  IF d = "expense"
    THEN [rec EXCEPT !.ops = Append(@, ExpenseOp(ExpenseTransform(<< >>, t[1], t[2],
                                                                  rec.stamp)))]
    ELSE rec

\* What the body of one task does once its ...WithRetry call has settled.
TaskBody(rec, d, t) ==
  LET ans == answer[t]
      got == WithRetry(WrapperOf(d), ans.script)
  IN CASE got # "data" -> NoData(rec, d, t)
       [] d = "finance" ->
            LET recs == FinanceTransform(ans.data, t[1], t[2], rec.stamp)
            IN IF recs = << >> THEN rec
               ELSE [rec EXCEPT !.res.entitiesProcessed = @ + 1,
                                !.ops = @ \o [i \in DOMAIN recs |-> FinanceOp(recs[i])]]
       [] d = "procurement" ->
            LET recs == ProcurementTransform(ans.data, t[1], rec.stamp)
                acc == StageOrders(recs, [ids |-> rec.existing, items |-> rec.ops,
                                          skipped |-> rec.res.recordsSkipped])
            IN IF recs = << >> THEN rec
               ELSE [rec EXCEPT !.existing = acc.ids, !.ops = acc.items,
                                !.res.recordsSkipped = acc.skipped,
                                !.res.entitiesProcessed = @ + 1]
       [] OTHER ->
            IF ans.data = << >> THEN NoData(rec, d, t)
            ELSE [rec EXCEPT !.ops = Append(@, ExpenseOp(ExpenseTransform(ans.data, t[1],
                                                                          t[2], rec.stamp))),
                             !.res.entitiesProcessed = @ + 1]

\* p-limit starts the next queued task when one finishes
NextTask(rec, t) ==
  IF rec.pending = << >>
    THEN [rec EXCEPT !.active = @ \ {t}]
    ELSE [rec EXCEPT !.active = (@ \ {t}) \cup {Head(rec.pending)},
                     !.pending = Tail(@)]

\* `await Promise.all(tasks)` resumes: up to the next await
AfterTasks(rec, d) ==
  IF rec.active # {} THEN rec
  ELSE IF rec.ops # << >> THEN BeginWrite(rec, "write")
  ELSE IF d = "finance" THEN [rec EXCEPT !.pc = "aggFetch"]
  ELSE Finished(Returned(rec, d))

TaskSettles(r, t) ==
  /\ run[r].pc = "tasks"
  /\ t \in run[r].active
  /\ run' = [run EXCEPT ![r] = AfterTasks(NextTask(TaskBody(@, domain, t), t), domain)]
  /\ UNCHANGED <<domain, mode, answer, tokenOutcome, fault, wall, store, projects>>
  /\ UNCHANGED nonSyncVars

\* The aggregate call of the finance sync (no DataAreaId) settles.
AggregateSettles(r) ==
  /\ run[r].pc = "aggFetch"
  /\ LET ans == answer[<<NoEntity, SyncDate>>]
         got == WithRetry(WrapperOf(domain), ans.script)
         recs == IF got = "data"
                   THEN FinanceTransform(ans.data, NoEntity, SyncDate, run[r].stamp)
                   ELSE << >>
     IN run' = [run EXCEPT ![r] =
          IF recs = << >>
            THEN Finished(Returned(@, domain))
            ELSE BeginWrite([@ EXCEPT !.ops = [i \in DOMAIN recs |-> FinanceOp(recs[i])]],
                            "aggWrite")]
  /\ UNCHANGED <<domain, mode, answer, tokenOutcome, fault, wall, store, projects>>
  /\ UNCHANGED nonSyncVars


\* `await get...DataWithRetry(token, fromDate, toDate)` of the whole-window
\* syncs settles; with no records the result is returned as it stands.
FetchSettles(r) ==
  /\ run[r].pc = "fetch"
  /\ LET ans == answer[<<NoEntity, SyncDate>>]
         got == IF domain = "sales" THEN WithRetry(WrapperOf(domain), ans.script)
                                    ELSE RevenueWithRetry(ans.script)
         records == IF got = "data" THEN ans.data ELSE << >>
     IN run' = [run EXCEPT ![r] =
          IF records = << >> THEN Finished([@ EXCEPT !.pc = "done"])
          ELSE [@ EXCEPT !.pc = "records", !.records = records, !.cur = 1,
                         !.ops = << >>]]
  /\ UNCHANGED <<domain, mode, answer, tokenOutcome, fault, wall, store, projects>>
  /\ UNCHANGED nonSyncVars

\* the sales loop moves on to its next record, or leaves the loop
SalesAdvance(rec, d) ==
  LET n == [rec EXCEPT !.cur = @ + 1, !.ops = << >>]
  IN IF n.cur > Len(n.records) THEN Finished(Returned(n, d))
     ELSE [n EXCEPT !.pc = "records"]

\* One turn of `for (const record of records)`: transformApiRecord, then
\* either an updateOne of its own (sales) or one more bulk operation.
TransformRecord(r) ==
  /\ run[r].pc = "records"
  /\ LET rec == run[r]
         raw == rec.records[rec.cur]
         t == IF domain = "sales" THEN SalesTransform(raw, rec.stamp, projects)
                                  ELSE RevenueTransform(raw, rec.stamp, projects)
         missed == [rec EXCEPT !.res.recordsSkipped = @ + 1]
     IN /\ projects' = t.projects
        /\ run' = [run EXCEPT ![r] =
             IF domain = "sales"
               THEN IF t.out = NoRecord THEN SalesAdvance(missed, domain)
                    ELSE BeginWrite([rec EXCEPT !.ops = <<SalesOp(t.out)>>], "write")
               ELSE LET n == IF t.out = NoRecord THEN [missed EXCEPT !.cur = @ + 1]
                             ELSE [rec EXCEPT !.cur = @ + 1,
                                              !.ops = Append(@, RevenueOp(t.out))]
                    IN IF n.cur <= Len(n.records) THEN n
                       ELSE IF n.ops # << >> THEN BeginWrite(n, "write")
                       ELSE Finished(Returned(n, domain))]
  /\ UNCHANGED <<domain, mode, answer, tokenOutcome, fault, wall, store>>
  /\ UNCHANGED nonSyncVars

(***************************************************************************)
(* Writes.  The server runs the operations of a bulk write one by one; an  *)
(* upsert looks its filter up and then updates the document found or       *)
(* inserts a new one, and other writers get in between the two.            *)
(***************************************************************************)
Upserting(r) ==
  /\ run[r].pc \in {"write", "aggWrite"}
  /\ domain # "procurement"
  /\ run[r].opi <= Len(run[r].ops)

\* the lookup of updateOne({ filter, upsert: true })
UpsertFind(r) ==
  /\ Upserting(r)
  /\ run[r].found = -1
  /\ run' = [run EXCEPT ![r].found = AnyMatch(run[r].ops[run[r].opi].filter)]
  /\ UNCHANGED <<domain, mode, answer, tokenOutcome, fault, wall, store, projects>>
  /\ UNCHANGED nonSyncVars

\* the update or the insert of updateOne({ filter, upsert: true }).  An
\* insert that meets a unique index is either looked up again by the server
\* or reported as a duplicate key error of the operation.
UpsertApply(r) ==
  /\ Upserting(r)
  /\ run[r].found >= 0
  /\ LET rec == run[r]
         op == rec.ops[rec.opi]
         old == RowById(rec.found)
         new == SetFields(old, op.fields)
         fresh == Upserted(op.filter, op.fields)
         next == [rec EXCEPT !.opi = @ + 1, !.found = -1]
     IN IF rec.found > 0
          THEN /\ store' = (store \ {old}) \cup {new}
               /\ run' = [run EXCEPT ![r] =
                    [next EXCEPT !.modified = IF new = old THEN @ ELSE @ + 1]]
          ELSE IF Duplicates(domain, fresh) = {}
            THEN /\ store' = store \cup {fresh}
                 /\ run' = [run EXCEPT ![r] = [next EXCEPT !.upserted = @ + 1]]
            ELSE /\ store' = store
                 /\ \/ run' = [run EXCEPT ![r].found = -1]
                    \/ run' = [run EXCEPT ![r] = [next EXCEPT !.werr = TRUE]]
  /\ UNCHANGED <<domain, mode, answer, tokenOutcome, fault, wall, projects>>
  /\ UNCHANGED nonSyncVars

\* One document of insertMany(validItems, { ordered: false }), or one
\* ProcurementPurchaseOrder.create(doc) of the fallback loop: inserted, or
\* refused by the unique index on purchId.
InsertStep(r) ==
  /\ run[r].pc \in {"write", "fallback"}
  /\ domain = "procurement"
  /\ run[r].opi <= Len(run[r].ops)
  /\ LET rec == run[r]
         fresh == SetFields(DefaultRow @@ [id |-> NextRowId], rec.ops[rec.opi])
         next == [rec EXCEPT !.opi = @ + 1]
     IN IF Duplicates(domain, fresh) = {}
          THEN /\ store' = store \cup {fresh}
               /\ run' = [run EXCEPT ![r] = [next EXCEPT !.upserted = @ + 1]]
          ELSE /\ store' = store
               /\ run' = [run EXCEPT ![r] =
                    IF rec.pc = "write" THEN [next EXCEPT !.werr = TRUE]
                    ELSE [next EXCEPT !.skipped = @ + 1]]
  /\ UNCHANGED <<domain, mode, answer, tokenOutcome, fault, wall, projects>>
  /\ UNCHANGED nonSyncVars

\* the catch block around one record of the sales loop
RecordCaught(rec, d) ==
  SalesAdvance([rec EXCEPT !.res.errors = Append(@, [kind |-> "record", ref |-> rec.cur]),
                           !.res.recordsSkipped = @ + 1], d)

\* `await ...bulkWrite / insertMany / updateOne` resumes in the run.
WriteOver(rec, d) ==
  CASE d = "procurement" /\ rec.pc = "write" /\ rec.werr ->
         BeginWrite(rec, "fallback")
    [] d = "procurement" /\ rec.pc = "write" ->
         Finished(Returned([rec EXCEPT !.res.recordsSaved = rec.upserted], d))
    [] d = "procurement" ->
         Finished(Returned([rec EXCEPT !.res.recordsSaved = rec.upserted,
                                       !.res.recordsSkipped = @ + rec.skipped], d))
    [] d = "sales" /\ rec.werr -> RecordCaught(rec, d)
    [] d = "sales" -> SalesAdvance([rec EXCEPT !.res.recordsSaved = @ + 1], d)
    [] rec.werr -> Finished(Caught(rec, "duplicate key"))
    [] d = "finance" /\ rec.pc = "write" ->
         [rec EXCEPT !.pc = "aggFetch",
                     !.res.recordsSaved = rec.upserted + rec.modified]
    [] d = "finance" ->
         Finished(Returned([rec EXCEPT !.res.recordsSaved =
                                          @ + rec.upserted + rec.modified], d))
    [] OTHER ->
         Finished(Returned([rec EXCEPT !.res.recordsSaved =
                                          rec.upserted + rec.modified], d))

WriteDone(r) ==
  /\ run[r].pc \in {"write", "aggWrite", "fallback"}
  /\ run[r].opi > Len(run[r].ops)
  /\ run' = [run EXCEPT ![r] = WriteOver(@, domain)]
  /\ UNCHANGED <<domain, mode, answer, tokenOutcome, fault, wall, store, projects>>
  /\ UNCHANGED nonSyncVars

\* The write is refused as a whole for a reason other than a duplicate key
\* (the connection to the database is lost): nothing is written, the await
\* throws.  At most one write of a behaviour fails this way.
WriteFails(r) ==
  /\ fault = "none"
  /\ run[r].pc \in {"write", "aggWrite"}
  /\ run[r].opi = 1 /\ run[r].found = -1
  /\ fault' = run[r].pc
  /\ run' = [run EXCEPT ![r] =
       CASE domain = "procurement" ->
              Finished(Returned([@ EXCEPT
                !.res.errors = Append(@, [kind |-> "bulk", ref |-> "Bulk insert failed"]),
                !.res.success = FALSE], domain))
         [] domain = "sales" -> RecordCaught(@, domain)
         [] OTHER -> Finished(Caught(@, "write failed"))]
  /\ UNCHANGED <<domain, mode, answer, tokenOutcome, wall, store, projects>>
  /\ UNCHANGED nonSyncVars

SyncIdle ==
  /\ domain = "finance"
  /\ mode = "sequential"
  /\ answer = << >>
  /\ tokenOutcome = [r \in RunIds |-> "pending"]
  /\ fault = "none"
  /\ wall = 0
  /\ store = {}
  /\ projects = {}
  /\ run = [r \in RunIds |-> IdleRun]

\* A domain, what the upstream answers for each scope during the whole
\* behaviour (both runs get identical responses), an empty collection.
SyncStart ==
  /\ domain \in Domains
  /\ mode = "sequential"
  /\ answer \in [ScopesOf(domain) -> AnswersOf(domain)]
  /\ tokenOutcome = [r \in RunIds |-> "pending"]
  /\ fault = "none"
  /\ wall = 0
  /\ store = {}
  /\ projects = {}
  /\ run = [r \in RunIds |-> IdleRun]

\* The manual trigger and the scheduler start the same sync side by side.
RaceStart ==
  /\ domain \in {"finance", "procurement", "expense", "revenue"}
  /\ mode = "racing"
  /\ \E a \in AnswersOf(domain) : answer = [sc \in ScopesOf(domain) |-> a]
  /\ tokenOutcome = [r \in RunIds |-> "pending"]
  /\ fault = "none"
  /\ wall = 0
  /\ store = {}
  /\ projects = {}
  /\ run = [r \in RunIds |-> IdleRun]

SyncNext ==
  \/ \E r \in RunIds : StartRun(r)
  \/ \E r \in RunIds : TokenSettles(r)
  \/ \E r \in RunIds : LoadEntities(r)
  \/ \E r \in RunIds : LoadSnapshot(r)
  \/ \E r \in RunIds : \E t \in ScopesOf(domain) : TaskSettles(r, t)
  \/ \E r \in RunIds : AggregateSettles(r)
  \/ \E r \in RunIds : FetchSettles(r)
  \/ \E r \in RunIds : TransformRecord(r)
  \/ \E r \in RunIds : UpsertFind(r)
  \/ \E r \in RunIds : UpsertApply(r)
  \/ \E r \in RunIds : InsertStep(r)
  \/ \E r \in RunIds : WriteDone(r)
  \/ \E r \in RunIds : WriteFails(r)

\* One finance reserve sync over three entities, for one date.
ReserveStart ==
  /\ domain = "finance"
  /\ mode = "sequential"
  /\ answer \in [({1, 2, 3} \cup {NoEntity}) \X {SyncDate} -> FinanceAnswers]
  /\ tokenOutcome = [r \in RunIds |-> "pending"]
  /\ fault = "none"
  /\ wall = 0
  /\ store = {}
  /\ projects = {}
  /\ run = [r \in RunIds |-> IdleRun]

ReserveNext ==
  \/ \E r \in RunIds : StartRun(r)
  \/ \E r \in RunIds : TokenSettles(r)
  \/ \E r \in RunIds : LoadEntities(r)
  \/ \E r \in RunIds : \E t \in DOMAIN answer : TaskSettles(r, t)
  \/ \E r \in RunIds : AggregateSettles(r)
  \/ \E r \in RunIds : UpsertFind(r)
  \/ \E r \in RunIds : UpsertApply(r)
  \/ \E r \in RunIds : WriteDone(r)
  \/ \E r \in RunIds : WriteFails(r)

\* An expense paidout sync over a collection that an earlier sync filled:
\* every (entity, date) slice has its document, with the amounts of PaidA.
ResyncStart ==
  /\ domain = "expense"
  /\ mode = "sequential"
  /\ answer \in [ScopesOf("expense") -> ExpenseAnswers]
  /\ tokenOutcome = [r \in RunIds |-> "pending"]
  /\ fault = "none"
  /\ wall = 0
  /\ store = {SetFields(DefaultRow @@ [id |-> sc[1]],
                        ExpenseTransform(PaidA, sc[1], sc[2], 0)) :
                 sc \in ScopesOf("expense")}
  /\ projects = {}
  /\ run = [r \in RunIds |-> IdleRun]

ResyncNext ==
  \/ \E r \in RunIds : StartRun(r)
  \/ \E r \in RunIds : TokenSettles(r)
  \/ \E r \in RunIds : LoadEntities(r)
  \/ \E r \in RunIds : \E t \in DOMAIN answer : TaskSettles(r, t)
  \/ \E r \in RunIds : UpsertFind(r)
  \/ \E r \in RunIds : UpsertApply(r)
  \/ \E r \in RunIds : WriteDone(r)
  \/ \E r \in RunIds : WriteFails(r)

(***************************************************************************)
(* The concurrency limiter (p-limit) under entities.map(e => limit(task)): *)
(* any number of entity tasks, a domain's budget, the upstream calls       *)
(* settling in any order.                                                  *)
(***************************************************************************)
IdleLimiter == [d |-> "none", n |-> 0, pending |-> << >>, active |-> {},
                finished |-> {}]

\* `const tasks = entities.map(entity => limit(async () => ...))` has run:
\* the first `limit` tasks are in flight, the others wait in line.
LimitStart ==
  \E d \in {"finance", "procurement", "expense"} : \E n \in 1..MaxTasks :
    limiter = [d |-> d, n |-> n,
               active |-> Range(FirstN([k \in 1..n |-> k], Concurrency(d))),
               pending |-> DropN([k \in 1..n |-> k], Concurrency(d)),
               finished |-> {}]

\* the upstream call of task t settles and its body runs to the end
LimitTaskSettles(t) ==
  /\ t \in limiter.active
  /\ limiter' = [NextTask(limiter, t) EXCEPT !.finished = @ \cup {t}]
  /\ UNCHANGED <<coreVars, sched, server, detail, otp, login>>

LimitNext == \E t \in 1..MaxTasks : LimitTaskSettles(t)

(***************************************************************************)
(* The scheduler: startSyncScheduler registers one cron callback that runs *)
(* the six syncs one after the other and logs a summary.                   *)
(***************************************************************************)
\* the syncs in the order of the callback, by the name their result carries
SyncNames == <<"Finance Reserve", "Sales Collection", "Revenue Reservation",
               "Procurement", "Expense Paidout", "Instagram">>

\* syncJob (is it a task), the cron tasks scheduled and not stopped, the
\* sync awaited (0: no callback running, 7: about to log the summary), the
\* syncs called and the results pushed by the callback, the callbacks
\* begun, was the latest of them begun while syncJob was null, what the
\* Instagram sync of the callback did, and what the latest summary counted
IdleSched == [job |-> FALSE, active |-> 0, pc |-> 0, started |-> << >>,
              results |-> << >>, triggers |-> 0, orphan |-> FALSE,
              insta |-> "none", summary |-> [total |-> 0, failed |-> 0]]

\* syncJob = cron.schedule('30 09 * * *', callback, {scheduled: true, ...}):
\* a new task is scheduled and syncJob names it; a task syncJob named
\* before is neither stopped nor remembered
StartSyncScheduler ==
  /\ sched.active < MaxJobs
  /\ sched' = [sched EXCEPT !.job = TRUE, !.active = @ + 1]
  /\ UNCHANGED <<coreVars, limiter, server, detail, otp, login>>

\* if (syncJob) { syncJob.stop(); syncJob = null }: the task syncJob names
\* triggers no more; a callback that is running goes on
StopSyncScheduler ==
  /\ sched.job
  /\ sched' = [sched EXCEPT !.job = FALSE, !.active = @ - 1]
  /\ UNCHANGED <<coreVars, limiter, server, detail, otp, login>>

\* The daily trigger: results = [], then the first sync is called.
CronFires ==
  /\ sched.active > 0 /\ sched.pc = 0
  /\ sched.triggers < MaxTriggers
  /\ sched' = [sched EXCEPT !.pc = 1, !.results = << >>, !.insta = "none",
                            !.started = <<SyncNames[1]>>, !.triggers = @ + 1,
                            !.orphan = ~sched.job]
  /\ UNCHANGED <<coreVars, limiter, server, detail, otp, login>>

\* One of the first five syncs, awaited, settles: its result is pushed from
\* the try block, or a failed result from the catch block, and the next
\* sync is called.  With `guarded` false the try/catch is taken away.
Settling(guarded, o) ==
  /\ sched.pc \in 1..(Len(SyncNames) - 1)
  /\ sched' =
       IF o = "threw" /\ ~guarded THEN [sched EXCEPT !.pc = 0]
       ELSE [sched EXCEPT
               !.results = Append(@, [name |-> SyncNames[sched.pc],
                                      success |-> o = "success"]),
               !.started = IF sched.pc < Len(SyncNames)
                             THEN Append(@, SyncNames[sched.pc + 1]) ELSE @,
               !.pc = @ + 1]
  /\ UNCHANGED <<coreVars, limiter, server, detail, otp, login>>

SyncSettlesUnguarded(o) == Settling(FALSE, o)

SyncSettles(o) == Settling(TRUE, o)

\* What an Instagram sync meets: is there an LDP entity, do the two Windsor
\* requests answer, is yesterday's document there already, does the
\* database take the upsert.
InstagramInputs ==
  [ldp : BOOLEAN, api : {"ok", "error"}, existing : BOOLEAN, db : {"ok", "error"}]

\* syncInstagramData(): the whole body is one try block whose catch logs
\* the error and returns, so the caller sees a plain return on every path.
SyncInstagramData(in) ==
  CASE ~in.ldp -> [threw |-> FALSE, did |-> "no entity"]
    [] in.api = "error" -> [threw |-> FALSE, did |-> "api error"]
    [] in.existing -> [threw |-> FALSE, did |-> "already synced"]
    [] in.db = "error" -> [threw |-> FALSE, did |-> "db error"]
    [] OTHER -> [threw |-> FALSE, did |-> "saved"]

\* `await syncInstagramData()` settles: the try block pushes a success with
\* recordsSaved: 1, the catch block a failure.
InstagramSettles(in) ==
  /\ sched.pc = Len(SyncNames)
  /\ LET out == SyncInstagramData(in)
     IN sched' = [sched EXCEPT
          !.results = Append(@, IF out.threw
                                  THEN [name |-> "Instagram", success |-> FALSE]
                                  ELSE [name |-> "Instagram", success |-> TRUE,
                                        recordsSaved |-> 1]),
          !.insta = out.did,
          !.pc = @ + 1]
  /\ UNCHANGED <<coreVars, limiter, server, detail, otp, login>>

\* logSyncSummary(results, overallStartTime)
LogSyncSummary ==
  /\ sched.pc = Len(SyncNames) + 1
  /\ sched' = [sched EXCEPT
       !.pc = 0,
       !.summary = [total |-> Len(sched.results),
                    failed |-> Cardinality({i \in DOMAIN sched.results :
                                              ~sched.results[i].success})]]
  /\ UNCHANGED <<coreVars, limiter, server, detail, otp, login>>

CallbackStep ==
  \/ \E o \in {"success", "failed", "threw"} : SyncSettles(o)
  \/ \E in \in InstagramInputs : InstagramSettles(in)
  \/ LogSyncSummary

SchedNext ==
  \/ StartSyncScheduler
  \/ StopSyncScheduler
  \/ CronFires
  \/ CallbackStep

(***************************************************************************)
(* The server process: startServer awaits the connections, listens, and    *)
(* registers gracefulShutdown for SIGTERM, SIGINT, unhandledRejection and  *)
(* uncaughtException.                                                      *)
(***************************************************************************)
\* startServer() has been called and awaits initializeConnections()
IdleServer == [pc |-> "connecting", arrived |-> 0, open |-> 0, signals |-> << >>,
               code |-> -1]

\* initializeConnections() settles: app.listen(PORT), the handlers are
\* registered; a connection that fails ends the process with code 1
ConnectionsSettle ==
  /\ server.pc = "connecting"
  /\ \E ok \in BOOLEAN :
       server' = IF ok THEN [server EXCEPT !.pc = "listening"]
                       ELSE [server EXCEPT !.pc = "exited", !.code = 1]
  /\ UNCHANGED <<coreVars, limiter, sched, detail, otp, login>>

\* a request reaches the listening server
RequestArrives ==
  /\ server.pc = "listening"
  /\ server.arrived < MaxRequests
  /\ server' = [server EXCEPT !.arrived = @ + 1, !.open = @ + 1]
  /\ UNCHANGED <<coreVars, limiter, sched, detail, otp, login>>

\* a response is sent
RequestServed ==
  /\ server.pc \in {"listening", "closing"}
  /\ server.open > 0
  /\ server' = [server EXCEPT !.open = @ - 1]
  /\ UNCHANGED <<coreVars, limiter, sched, detail, otp, login>>

\* gracefulShutdown(signal): server.close(callback) and the 10 s timer;
\* nothing else is called
GracefulShutdown ==
  /\ server.pc \in {"listening", "closing"}
  /\ Len(server.signals) < MaxSignals
  /\ \E sig \in {"SIGTERM", "SIGINT", "unhandledRejection", "uncaughtException"} :
       server' = [server EXCEPT !.pc = "closing", !.signals = Append(@, sig)]
  /\ UNCHANGED <<coreVars, limiter, sched, detail, otp, login>>

\* the callback of server.close: no request is open, process.exit(0)
ServerClosed ==
  /\ server.pc = "closing" /\ server.open = 0
  /\ server' = [server EXCEPT !.pc = "exited", !.code = 0]
  /\ UNCHANGED <<coreVars, limiter, sched, detail, otp, login>>

\* the 10 s timer fires first: process.exit(1)
ForcedExit ==
  /\ server.pc = "closing"
  /\ server' = [server EXCEPT !.pc = "exited", !.code = 1]
  /\ UNCHANGED <<coreVars, limiter, sched, detail, otp, login>>

ServerNext ==
  \/ ConnectionsSettle
  \/ RequestArrives
  \/ RequestServed
  \/ GracefulShutdown
  \/ ServerClosed
  \/ ForcedExit

(***************************************************************************)
(* The detail reports: getSalesCollectionDetail, getRevenueReservation-    *)
(* Detail and getExpensePaidoutDetail group the documents that match the   *)
(* filters, sort the groups, and cut one page out with $skip and $limit.   *)
(* A stored date is an instant, counted in hours; the syncs store the      *)
(* midnight of the server's time zone.                                     *)
(***************************************************************************)
\* $dateToString with '%Y-%m-%d' and with '%Y-%m': the UTC day of an
\* instant, and the month of a day
DateToString(instant) == instant \div 24
MonthOf(day) == day \div DaysPerMonth

\* the $match stages of a detail handler: the documents that pass the date
\* and amount filters and, in the sales collection, are no 'No Value' row
Matching(docs) == {x \in docs : x.ok /\ x.special # "No Value"}

HexChars == DigitChars \cup {"a", "b", "c", "d", "e", "f"}

\* mongoose.Types.ObjectId.isValid of a query string: 24 hexadecimal digits
IsValidObjectId(id) == Len(id) = 24 /\ \A i \in 1..24 : id[i] \in HexChars

\* values of the projectId / entityId query parameter: absent, blank,
\* malformed, and the identifier of a stored project or entity
DimensionIds ==
  [none |-> << >>, blank |-> <<" ">>, junk |-> <<"z", "z">>,
   one |-> [i \in 1..24 |-> "a"]]

\* match.project = new ObjectId(projectId), for an id that is given
ByDimension(id, docs) ==
  IF Trim(id) # << >> THEN {x \in docs : x.dim = id} ELSE docs

\* a handler that never takes the 'invalid ID' branch
RejectsIdNever(id) == FALSE

\* the else-branch of the id filter: given, not blank, and not an ObjectId
RejectsId(id) == Trim(id) # << >> /\ ~IsValidObjectId(id)

\* the _id of the $group stage the pages are cut from
GroupKey(ctl, x) ==
  CASE ctl = "sales" -> x.date
    [] ctl \in {"revenue", "procurement"} -> DateToString(x.date)
    [] OTHER -> MonthOf(DateToString(x.date))

\* $sort: { date: -1 } / { month: -1 } over distinct keys
RECURSIVE SortDesc(_)
SortDesc(keys) ==
  IF keys = {} THEN << >>
  ELSE LET top == CHOOSE k \in keys : \A j \in keys : j <= k
       IN <<top>> \o SortDesc(keys \ {top})

\* const skip = (page - 1) * limit
SkipFromPage(page, limit) == page * limit

Skip(page, limit) == (page - 1) * limit

\* { $skip: skip }, { $limit: limit }
Window(groups, skip, limit) ==
  SubSeq(groups, skip + 1, IF skip + limit < Len(groups) THEN skip + limit
                                                         ELSE Len(groups))

\* the date buckets of one group of the page, latest first: the day of a
\* sales or revenue group, the days of the month of an expense group
BucketsOf(ctl, key, docs) ==
  CASE ctl = "sales" -> <<DateToString(key)>>
    [] ctl \in {"revenue", "procurement"} -> <<key>>
    [] OTHER -> SortDesc({DateToString(x.date) :
                            x \in {y \in Matching(docs) : GroupKey(ctl, y) = key}})

\* $sum of a field over a set of documents
RECURSIVE SumOf(_, _)
SumOf(docs, f) ==
  IF docs = {} THEN 0
  ELSE LET x == CHOOSE y \in docs : TRUE IN x.v[f] + SumOf(docs \ {x}, f)

Totals(e, n) == [escrowCollection |-> e, nonEscrowCollection |-> n, totalCollection |-> e + n]

\* The summary fields of the buckets of one group.  A sales bucket takes
\* them from the first Grand Summary document of the group ($ifNull ... 0)
\* and counts the regular records; the other reports add up the amounts.
SumsOf(ctl, key, docs) ==
  LET group == {x \in Matching(docs) : GroupKey(ctl, x) = key}
      grand == {x \in group : x.special = "Grand Summary"}
      stamps == BucketsOf(ctl, key, docs)
  IN IF ctl = "sales"
       THEN << [records |-> Cardinality(group \ grand)] @@
               (IF grand = {} THEN Totals(0, 0)
                ELSE LET g == CHOOSE x \in grand : TRUE
                     IN Totals(g.v.escrowCollection, g.v.nonEscrowCollection)) >>
       ELSE [i \in DOMAIN stamps |->
               [totalAmount |-> SumOf({x \in group : DateToString(x.date) = stamps[i]},
                                      "amount")]]

RECURSIVE Flatten(_)
Flatten(seqs) == IF seqs = << >> THEN << >> ELSE Head(seqs) \o Flatten(Tail(seqs))

\* The response of a detail handler: pagination.total, pagination.totalPages
\* (Math.ceil(total / limit)), hasNextPage, hasPrevPage, and the dates of
\* the buckets, in order.
GetDetail(ctl, docs, page, limit) ==
  LET groups == SortDesc({GroupKey(ctl, x) : x \in Matching(docs)})
      cut == Window(groups, Skip(page, limit), limit)
      totalPages == (Len(groups) + limit - 1) \div limit
  IN [total |-> Len(groups),
      totalPages |-> totalPages,
      hasNextPage |-> page < totalPages,
      hasPrevPage |-> page > 1,
      dates |-> Flatten([i \in DOMAIN cut |-> BucketsOf(ctl, cut[i], docs)]),
      sums |-> Flatten([i \in DOMAIN cut |-> SumsOf(ctl, cut[i], docs)])]

\* the response to an id that is not an ObjectId, sent with status 200
EmptyPage == [total |-> 0, totalPages |-> 0, hasNextPage |-> FALSE,
              hasPrevPage |-> FALSE, dates |-> << >>, sums |-> << >>]

\* A detail handler from the id filter on: its response, and the number of
\* aggregations it sent to the store (the count and the page).
DetailHandler(ctl, id, docs, page, limit) ==
  IF RejectsId(id)
    THEN [res |-> EmptyPage, queries |-> 0]
    ELSE [res |-> GetDetail(ctl, ByDimension(id, docs), page, limit), queries |-> 2]

IdleDetail == [ctl |-> "none", id |-> << >>, docs |-> {}, limit |-> 1, page |-> 0,
               last |-> EmptyPage, queries |-> 0, seen |-> << >>,
               report |-> [op |-> "none"]]

\* A collection whose dates are the midnights of one time zone (UTC, or
\* four hours east of it), some documents passing the filters and some not.
DetailStart ==
  \E ctl \in {"sales", "revenue", "procurement", "expense"} : \E zone \in {0, 4} :
    \E docs \in SUBSET ({d * 24 - zone : d \in 1..MaxDays} \X BOOLEAN) :
      \E limit \in 1..MaxPageSize :
        \E id \in {DimensionIds[k] : k \in DOMAIN DimensionIds} :
          detail = [IdleDetail EXCEPT
                      !.ctl = ctl, !.limit = limit, !.id = id,
                      !.docs = {[date |-> x[1], ok |-> x[2], dim |-> DimensionIds.one,
                                 special |-> "", v |-> [amount |-> 1]] :
                                  x \in docs}]

\* the client asks for the page after the last one it got
FetchNextPage ==
  /\ detail.ctl # "none"
  /\ detail.page <= detail.last.totalPages
  /\ LET got == DetailHandler(detail.ctl, detail.id, detail.docs, detail.page + 1,
                              detail.limit)
     IN detail' = [detail EXCEPT !.page = @ + 1, !.last = got.res,
                                 !.queries = @ + got.queries,
                                 !.seen = @ \o got.res.dates]
  /\ UNCHANGED <<coreVars, limiter, sched, server, otp, login>>

DetailNext == FetchNextPage

(***************************************************************************)
(* The list and summary reports of the sales collection, over a collection *)
(* that holds the rows of two projects and the special rows of each day.   *)
(***************************************************************************)
\* the $match of getSalesCollectionData: no special row, the project of a
\* well-formed id (another id is ignored), the date and amount filters
ListMatch(id, docs) ==
  {x \in docs : /\ x.special = "" /\ x.ok
                /\ (Trim(id) # << >> /\ IsValidObjectId(id)) => x.dim = id}

\* getSalesCollectionData: pagination and the number of records returned
GetList(id, docs, page, limit) ==
  LET total == Cardinality(ListMatch(id, docs))
      left == total - Skip(page, limit)
  IN [total |-> total,
      totalPages |-> (total + limit - 1) \div limit,
      hasNextPage |-> page < (total + limit - 1) \div limit,
      records |-> IF left <= 0 THEN 0 ELSE IF left < limit THEN left ELSE limit]

\* getCollectionForDate of getSalesCollectionSummary: the Grand Summary of
\* the day when no project is asked for and the row exists, else the sum
\* over the regular rows
GetCollectionForDate(id, docs, day) ==
  LET onDay == {x \in docs : DateToString(x.date) = day}
      grand == {x \in onDay : x.special = "Grand Summary"}
      regular == {x \in onDay : /\ x.special = ""
                                /\ (id # << >> /\ IsValidObjectId(id)) => x.dim = id}
  IN IF ~(id # << >> /\ IsValidObjectId(id)) /\ grand # {}
       THEN LET g == CHOOSE x \in grand : TRUE
            IN Totals(g.v.escrowCollection, g.v.nonEscrowCollection)
       ELSE Totals(SumOf(regular, "escrowCollection"), SumOf(regular, "nonEscrowCollection"))

\* getSalesCollectionSummary on the day `today`
GetSummary(id, docs, today) ==
  [yesterday |-> GetCollectionForDate(id, docs, today - 1),
   previousDay |-> GetCollectionForDate(id, docs, today - 2),
   changeAmount |-> GetCollectionForDate(id, docs, today - 1).totalCollection
                      - GetCollectionForDate(id, docs, today - 2).totalCollection]

\* a handler that stamps the documents it has read
RespondTouching(rec, report) ==
  [rec EXCEPT !.report = report,
              !.docs = {[x EXCEPT !.ok = FALSE] : x \in rec.docs}]

\* res.status(200).json(...): the handler ends with its response
Respond(rec, report) == [rec EXCEPT !.report = report]

ReportDays == 1..(MaxDays - 2)
ReportPageSizes == {1, 2}

\* the rows a sales collection can hold for one day: one per project, one
\* Grand Summary and one No Value row
ReportRow(day, kind) ==
  [date |-> day * 24, ok |-> TRUE,
   dim |-> CASE kind = "one" -> DimensionIds.one
             [] kind = "two" -> [i \in 1..24 |-> "b"]
             [] OTHER -> << >>,
   special |-> IF kind \in {"Grand Summary", "No Value"} THEN kind ELSE "",
   v |-> CASE kind = "one" -> [escrowCollection |-> day, nonEscrowCollection |-> 2]
           [] kind = "two" -> [escrowCollection |-> 3, nonEscrowCollection |-> day + 3]
           [] kind = "Grand Summary" -> [escrowCollection |-> 10 * day, nonEscrowCollection |-> 20]
           [] OTHER -> [escrowCollection |-> 0, nonEscrowCollection |-> 0]]

ReportStart ==
  \E rows \in SUBSET (ReportDays \X {"one", "two", "Grand Summary", "No Value"}) :
    \E limit \in ReportPageSizes : \E id \in {DimensionIds.none, DimensionIds.one} :
      detail = [IdleDetail EXCEPT
                  !.ctl = "sales", !.limit = limit, !.id = id,
                  !.docs = {ReportRow(x[1], x[2]) : x \in rows}]

ListRequest ==
  /\ detail.ctl # "none"
  /\ \E page \in ReportPageSizes :
       detail' = Respond(detail, [op |-> "list", page |-> page,
                                  res |-> GetList(detail.id, detail.docs, page, detail.limit)])
  /\ UNCHANGED <<coreVars, limiter, sched, server, otp, login>>

SummaryRequest ==
  /\ detail.ctl # "none"
  /\ LET today == MaxDays - 1
     IN detail' = Respond(detail, [op |-> "summary", today |-> today,
                                   res |-> GetSummary(detail.id, detail.docs, today)])
  /\ UNCHANGED <<coreVars, limiter, sched, server, otp, login>>

ReportNext ==
  \/ FetchNextPage
  \/ ListRequest
  \/ SummaryRequest

(***************************************************************************)
(* One-time passwords: verifyOTP reads the code stored in Redis under      *)
(* otp:<type>:<identifier>, compares it, and deletes the key, in separate  *)
(* commands.  The requests below are for one (type, identifier).           *)
(***************************************************************************)
Verifiers == 1..MaxVerifiers

IdleOtp ==
  [stored |-> "null",
   req |-> [r \in Verifiers |->
              [pc |-> "idle", otp |-> "null", storedOTP |-> "null", isValid |-> FALSE]]]

\* storeOTP has stored a code that has not expired
OtpStart == otp = [IdleOtp EXCEPT !.stored = "123456"]

\* verifyOTPForPurpose from the request to the answer of redisClient.get:
\* the client presents the stored code or another one
VerifyRead(r) ==
  /\ otp.req[r].pc = "idle"
  /\ \E code \in {"123456", "000000"} :
       otp' = [otp EXCEPT !.req[r] = [pc |-> "got", otp |-> code,
                                      storedOTP |-> otp.stored, isValid |-> FALSE]]
  /\ UNCHANGED <<coreVars, limiter, sched, server, detail, login>>

\* the rest of verifyOTP and the response: 400 when no code was read or it
\* differs; else redisClient.del and 200, or 400 when the del is rejected
VerifySettle(r) ==
  /\ otp.req[r].pc = "got"
  /\ LET q == otp.req[r]
     IN IF q.storedOTP = "null" \/ q.storedOTP # q.otp
          THEN otp' = [otp EXCEPT !.req[r].pc = "done"]
          ELSE \/ otp' = [otp EXCEPT !.stored = "null", !.req[r].pc = "done",
                                     !.req[r].isValid = TRUE]
               \/ otp' = [otp EXCEPT !.req[r].pc = "done"]
  /\ UNCHANGED <<coreVars, limiter, sched, server, detail, login>>

\* the key's time to live (OTP_EXPIRY_MINUTES) runs out
OtpExpires ==
  /\ otp.stored # "null"
  /\ otp' = [otp EXCEPT !.stored = "null"]
  /\ UNCHANGED <<coreVars, limiter, sched, server, detail, login>>

OtpNext ==
  \/ \E r \in Verifiers : VerifyRead(r)
  \/ \E r \in Verifiers : VerifySettle(r)
  \/ OtpExpires

(***************************************************************************)
(* Login lockout: the failed attempts of one (email, client IP) are        *)
(* counted in Redis under login:attempts:<email>:<ip>, a key that expires  *)
(* LOCKOUT_SECONDS after it was last written.  0 stands for no key.        *)
(***************************************************************************)
MAX_LOGIN_ATTEMPTS == 5
Logins == 1..MaxLogins

\* tried: the wrong passwords compared since the key was last absent;
\* arrived: the login requests received, MaxArrivals at most
IdleLogin ==
  [attempts |-> 0, tried |-> 0, arrived |-> 0, open |-> FALSE,
   req |-> [s \in Logins |-> [pc |-> "idle", password |-> "", currentAttempts |-> 0,
                              status |-> 0]]]

LoginStart == login = [IdleLogin EXCEPT !.open = TRUE]

\* login up to the answer of checkLoginLockout: 429 when the count read is
\* MAX_LOGIN_ATTEMPTS or more, else on to the user and the password
CheckLoginLockout(s) ==
  /\ login.open /\ login.req[s].pc = "idle"
  /\ login.arrived < MaxArrivals
  /\ \E pw \in {"right", "wrong"} :
       login' = [login EXCEPT
                   !.arrived = @ + 1,
                   !.req[s] = IF login.attempts >= MAX_LOGIN_ATTEMPTS
                                THEN [@ EXCEPT !.password = pw, !.status = 429]
                                ELSE [@ EXCEPT !.password = pw, !.status = 0,
                                               !.pc = "compare"]]
  /\ UNCHANGED <<coreVars, limiter, sched, server, detail, otp>>

\* comparePassword(password, user.password)
ComparePassword(s) ==
  /\ login.req[s].pc = "compare"
  /\ login' = IF login.req[s].password = "right"
                THEN [login EXCEPT !.req[s].pc = "reset"]
                ELSE [login EXCEPT !.req[s].pc = "incrementGet", !.tried = @ + 1]
  /\ UNCHANGED <<coreVars, limiter, sched, server, detail, otp>>

\* incrementFailedAttempt: const currentAttempts = await redisClient.get(key)
IncrementGet(s) ==
  /\ login.req[s].pc = "incrementGet"
  /\ login' = [login EXCEPT !.req[s].pc = "incrementSet",
                            !.req[s].currentAttempts = login.attempts]
  /\ UNCHANGED <<coreVars, limiter, sched, server, detail, otp>>

\* incrementFailedAttempt: setEx(key, LOCKOUT_SECONDS, attemptCount + 1), and
\* the response: 429 when the new count locks the pair, else 401
IncrementSet(s) ==
  /\ login.req[s].pc = "incrementSet"
  /\ LET newAttemptCount == login.req[s].currentAttempts + 1
     IN login' = [login EXCEPT
                    !.attempts = newAttemptCount,
                    !.req[s].pc = "idle", !.req[s].currentAttempts = 0,
                    !.req[s].status = IF newAttemptCount >= MAX_LOGIN_ATTEMPTS
                                        THEN 429 ELSE 401]
  /\ UNCHANGED <<coreVars, limiter, sched, server, detail, otp>>

\* resetLoginAttempts: redisClient.del(key), and the 200 response
ResetLoginAttempts(s) ==
  /\ login.req[s].pc = "reset"
  /\ login' = [login EXCEPT !.attempts = 0, !.tried = 0,
                            !.req[s].pc = "idle", !.req[s].status = 200]
  /\ UNCHANGED <<coreVars, limiter, sched, server, detail, otp>>

\* LOCKOUT_SECONDS have passed since the key was last written: minutes,
\* which no request stays in flight for
LockoutExpires ==
  /\ login.attempts > 0
  /\ \A s \in Logins : login.req[s].pc = "idle"
  /\ login' = [login EXCEPT !.attempts = 0, !.tried = 0]
  /\ UNCHANGED <<coreVars, limiter, sched, server, detail, otp>>

LoginNext ==
  \/ \E s \in Logins : CheckLoginLockout(s)
  \/ \E s \in Logins : ComparePassword(s)
  \/ \E s \in Logins : IncrementGet(s)
  \/ \E s \in Logins : IncrementSet(s)
  \/ \E s \in Logins : ResetLoginAttempts(s)
  \/ LockoutExpires

\* the components added to the four first ones, but `own`, are at rest
ExtrasIdle(own) ==
  /\ own = "limiter" \/ limiter = IdleLimiter
  /\ own = "sched" \/ sched = IdleSched
  /\ own = "server" \/ server = IdleServer
  /\ own = "detail" \/ detail = IdleDetail
  /\ own = "otp" \/ otp = IdleOtp
  /\ own = "login" \/ login = IdleLogin

(***************************************************************************)
(* Specifications                                                          *)
(***************************************************************************)
TokenNext ==
  \/ \E c \in Callers : GetTokenEnter(c)
  \/ \E c \in Callers : ProviderIssues(c)
  \/ \E c \in Callers : StoreToken(c)
  \/ \E c \in Callers : ExchangeFailed(c)
  \/ \E c \in Callers : RetryExchange(c)
  \/ Tick

TokenInit == TokenStart /\ RetryIdle /\ PollIdle /\ SyncIdle /\ ExtrasIdle("none")

SpecToken == TokenInit /\ [][TokenNext]_vars

RetryInit == RetryStart /\ TokenIdle /\ PollIdle /\ SyncIdle /\ ExtrasIdle("none")

SpecRetry == RetryInit /\ [][RetryNext]_vars

PollInit == PollStart /\ TokenIdle /\ RetryIdle /\ SyncIdle /\ ExtrasIdle("none")

\* Every awaited request settles (it carries a 30 s time-out) and every
\* sleep ends, so the loop is never suspended for ever.
SpecPoll == PollInit /\ [][PollNext]_vars /\ WF_vars(PollNext)

SyncInit == SyncStart /\ TokenIdle /\ RetryIdle /\ PollIdle /\ ExtrasIdle("none")

SpecSync == SyncInit /\ [][SyncNext]_vars

RaceInit == RaceStart /\ TokenIdle /\ RetryIdle /\ PollIdle /\ ExtrasIdle("none")

SpecRace == RaceInit /\ [][SyncNext]_vars

ReserveInit == ReserveStart /\ TokenIdle /\ RetryIdle /\ PollIdle /\ ExtrasIdle("none")

SpecReserve == ReserveInit /\ [][ReserveNext]_vars

ResyncInit == ResyncStart /\ TokenIdle /\ RetryIdle /\ PollIdle /\ ExtrasIdle("none")

SpecResync == ResyncInit /\ [][ResyncNext]_vars

LimitInit ==
  LimitStart /\ TokenIdle /\ RetryIdle /\ PollIdle /\ SyncIdle /\ ExtrasIdle("limiter")

\* Every upstream call of a task settles: the request carries a time-out
\* and the retry wrapper gives up after maxRetries attempts.
SpecLimit == LimitInit /\ [][LimitNext]_vars /\ WF_vars(LimitNext)

SchedInit ==
  sched = IdleSched /\ TokenIdle /\ RetryIdle /\ PollIdle /\ SyncIdle /\ ExtrasIdle("sched")

\* Every sync the callback awaits settles: each of them bounds its requests
\* by time-outs and its retries by a count.
SpecSched == SchedInit /\ [][SchedNext]_vars /\ WF_vars(CallbackStep)

ServerInit ==
  server = IdleServer /\ TokenIdle /\ RetryIdle /\ PollIdle /\ SyncIdle /\ ExtrasIdle("server")

SpecServer == ServerInit /\ [][ServerNext]_vars

DetailInit ==
  DetailStart /\ TokenIdle /\ RetryIdle /\ PollIdle /\ SyncIdle /\ ExtrasIdle("detail")

SpecDetail == DetailInit /\ [][DetailNext]_vars

OtpInit ==
  OtpStart /\ TokenIdle /\ RetryIdle /\ PollIdle /\ SyncIdle /\ ExtrasIdle("otp")

SpecOtp == OtpInit /\ [][OtpNext]_vars

LoginInit ==
  LoginStart /\ TokenIdle /\ RetryIdle /\ PollIdle /\ SyncIdle /\ ExtrasIdle("login")

SpecLogin == LoginInit /\ [][LoginNext]_vars

ReportInit ==
  ReportStart /\ TokenIdle /\ RetryIdle /\ PollIdle /\ SyncIdle /\ ExtrasIdle("detail")

SpecReport == ReportInit /\ [][ReportNext]_vars

(***************************************************************************)
(* C1: a token handed out from the cache, without a credential exchange,   *)
(* is handed out strictly before its provider-side expiry minus the        *)
(* 60 second safety margin, for both caches and whatever the order in      *)
(* which concurrent exchanges settle.                                      *)
(***************************************************************************)
C1_CachedTokenWithinMargin ==
  \A c \in Callers :
    (caller[c].pc = "returned" /\ caller[c].fromCache)
      => /\ caller[c].ret # NoToken
         /\ caller[c].retAt < issued[caller[c].ret] - SafetyMarginSec * MsPerSec

\* a cache hit after both callers exchanged concurrently and the cache holds
\* the token of the response that settled last
C1_Witness ==
  \E c \in Callers :
    /\ caller[c].pc = "returned" /\ caller[c].fromCache
    /\ Len(issued) >= 2
    /\ caller[c].retAt > 0

(***************************************************************************)
(* Vocabulary of the claims about sync runs                                *)
(***************************************************************************)
Done(r) == run[r].pc = "done"

\* the run got its token and no write of the behaviour was refused
Undisturbed(r) == Done(r) /\ tokenOutcome[r] = "ok" /\ fault = "none"

\* every attempt of the fetch meets a network error or a 5xx
Transient(ans) == \A i \in 1..RetryMax : ans.script[i] \in {"net", "s500", "s503"}

\* the first request of the fetch is answered with rows worth a record
Fruitful(ans) == ans.script[1] = "ok" /\ ans.data \in {BankRowsA, OrdersA}

\* The record of entity y, as the upstream described it, is in the rows.
\* Purchase orders are stored once per PurchId: an order that the response
\* of another entity carries too is stored as the task that settled first
\* described it.
SavedFor(y, rows) ==
  IF domain = "finance"
    THEN \E x \in rows : /\ x.entity = y /\ x.date = SyncDate
                         /\ x.v.EscrowReserve = 100 /\ x.v.NonEscrowReserve = 50
                         /\ x.v.TotalReserve = 150
    ELSE \E x \in rows :
           /\ x.purchId = "PO1"
           /\ \/ x.entity = y /\ x.v.totalAmount = 10
              \/ \E z \in Entities \ {y} :
                   /\ x.entity = z
                   /\ \E i \in DOMAIN answer[<<z, SyncDate>>].data :
                        ToUpperCase(answer[<<z, SyncDate>>].data[i].PurchId) = "PO1"

\* the uniqueness key of a row of the domain
KeyOf(row) ==
  CASE domain \in {"finance", "expense"} -> <<row.entity, row.date, row.src>>
    [] domain = "procurement" -> <<row.purchId>>
    [] domain = "sales" -> <<row.entity, row.project, row.special, row.date>>
    [] OTHER -> <<row.project, row.st, row.date>>

OneRowPerKey(rows) == \A a, b \in rows : KeyOf(a) = KeyOf(b) => a = b

\* key and metric fields of the rows
Metrics(rows) == {<<KeyOf(x), x.v>> : x \in rows}

(***************************************************************************)
(* C2 (as amended): when the fetch of entity X fails with a transient      *)
(* error on every attempt while the fetch of entity Y succeeds in the same *)
(* finance or procurement run, Y's record is saved (a purchase order whose *)
(* id the response of another entity carries too is saved once) and the    *)
(* run's errors list is empty: the retry wrapper turns X's failure into    *)
(* "no data", so nothing about X is recorded.                              *)
(***************************************************************************)
C2_PartialFailureSilent ==
  \A r \in RunIds : \A x, y \in Entities :
    ( /\ domain \in {"finance", "procurement"}
      /\ Undisturbed(r)
      /\ Transient(answer[<<x, SyncDate>>])
      /\ Fruitful(answer[<<y, SyncDate>>]) )
    => /\ SavedFor(y, run[r].finalStore)
       /\ run[r].res.errors = << >>
       /\ run[r].res.success

C2_Witness ==
  /\ domain = "procurement" /\ Undisturbed(1)
  /\ Transient(answer[<<1, SyncDate>>]) /\ Fruitful(answer[<<2, SyncDate>>])
  /\ SavedFor(2, run[1].finalStore)
  /\ run[1].res.recordsSaved = 1

\* C2 as stated: the errors list has exactly one entry, which refers to X
C2_Original ==
  \A r \in RunIds : \A x, y \in Entities :
    ( /\ domain \in {"finance", "procurement"}
      /\ Undisturbed(r)
      /\ Transient(answer[<<x, SyncDate>>])
      /\ Fruitful(answer[<<y, SyncDate>>]) )
    => /\ SavedFor(y, run[r].finalStore)
       /\ Len(run[r].res.errors) = 1
       /\ run[r].res.errors[1].ref = x

(***************************************************************************)
(* C3: when a manually triggered sync and the scheduled sync of the same   *)
(* domain race over the same window, the collection ends with at most one  *)
(* row per uniqueness key; for revenue reservations the key is (project,   *)
(* sales team name, date).                                                 *)
(***************************************************************************)
C3_RaceKeepsKeysUnique ==
  (\A r \in RunIds : Done(r)) => OneRowPerKey(store)

(***************************************************************************)
(* C4: running the sync of a domain twice over the same window with        *)
(* identical upstream responses leaves the rows the first run left: after  *)
(* each of the two runs every uniqueness key has one row, and keys and     *)
(* metric fields after the second run equal those after the first.         *)
(***************************************************************************)
C4_SecondRunSameRows ==
  (Undisturbed(1) /\ Undisturbed(2)) =>
    /\ OneRowPerKey(run[1].finalStore)
    /\ OneRowPerKey(run[2].finalStore)
    /\ Metrics(run[2].finalStore) = Metrics(run[1].finalStore)

C4_Witness ==
  /\ Undisturbed(1) /\ Undisturbed(2)
  /\ domain = "sales"
  /\ Cardinality(run[1].finalStore) = 2
  /\ run[2].finalStore # run[1].finalStore
  /\ Metrics(run[2].finalStore) = Metrics(run[1].finalStore)

C6_SuccessRule ==
  \A r \in RunIds :
    Done(r) => (run[r].res.success <=>
                  (run[r].res.errors = << >> \/ run[r].res.recordsSaved > 0))

(***************************************************************************)
(* C10: in the revenue reservation flow, when on every attempt the export  *)
(* job reports failure or does not complete within the polling budget,     *)
(* syncRevenueReservationData returns success = false with the failure in  *)
(* errors, never a successful result with zero records.                    *)
(***************************************************************************)
JobNeverDelivers(ans) ==
  \A i \in 1..RetryMax :
    ans.script[i].create = "ok" /\ ans.script[i].poll \in {"fails", "never"}

C10_JobFailurePropagates ==
  \A r \in RunIds :
    ( /\ domain = "revenue" /\ Done(r) /\ tokenOutcome[r] = "ok"
      /\ JobNeverDelivers(answer[<<NoEntity, SyncDate>>]) )
    => ~run[r].res.success /\ run[r].res.errors # << >>

(***************************************************************************)
(* C7 (as amended): for the bank group, procurement and sales collection   *)
(* wrappers an upstream that answers 500, 500 and then succeeds is asked   *)
(* exactly three times and the wrapper returns the third response's rows;  *)
(* the paid-out wrapper turns the first 500 into an empty array after one  *)
(* request.  Every wrapper sends at most maxRetries requests, stops at the *)
(* first attempt that does not throw and returns null once all attempts    *)
(* have thrown.                                                            *)
(***************************************************************************)
Script500500Ok == script = [i \in 1..RetryMax |-> IF i < 3 THEN "s500" ELSE "ok"]

Threw(i) ==
  \/ ~urlConfigured
  \/ script[i] \in {"net", "s503"}
  \/ script[i] = "s500" /\ wrapper # "paidout"

C7_RetryThenSucceed ==
  /\ requests <= RetryMax
  /\ attempt <= RetryMax
  /\ rpc = "done" =>
       /\ \A i \in 1..(attempt - 1) : Threw(i)
       /\ Threw(attempt) => (attempt = RetryMax /\ rresult.kind = "null")
       /\ ~Threw(attempt) => rresult.kind \in {"data", "empty", "null"}
       /\ (urlConfigured /\ Script500500Ok /\ wrapper # "paidout")
            => (requests = 3 /\ rresult = [kind |-> "data", from |-> 3])
       /\ (urlConfigured /\ Script500500Ok /\ wrapper = "paidout")
            => (requests = 1 /\ rresult.kind = "empty")

C7_Witness ==
  /\ rpc = "done" /\ urlConfigured /\ Script500500Ok
  /\ wrapper = "salesCollection" /\ requests = 3 /\ rresult.kind = "data"

\* C7 as stated: every wrapper, the paid-out one included, retries the two
\* 500s and returns the third response
C7_Original ==
  (rpc = "done" /\ urlConfigured /\ Script500500Ok)
     => (requests = 3 /\ rresult = [kind |-> "data", from |-> 3])

PollEnded == pollPc \in {"returned", "threw"}

C9_PollShape ==
  /\ pollRequests <= maxAttempts
  /\ pollRequests = attempts
  /\ PollEnded =>
       /\ pollResult \in {"rows", "jobFailed", "timeout", "requestError", "configError"}
       /\ pollResult = "rows" <=> (pollPc = "returned" /\ pollLast = "rows")
       /\ pollResult = "jobFailed" <=> (pollPc = "threw" /\ pollLast = "failure")
       /\ pollResult = "timeout" <=>
            (attempts = maxAttempts /\ pollLast \in {"pending", "e8121", "e8122"})
       /\ pollResult = "requestError" <=> pollLast \in {"s4xx", "s5xx", "net"}
       /\ pollResult = "configError" <=> (~pollConfigured /\ pollRequests = 0)
  /\ (pollLast \in {"e8121", "e8122"} /\ attempts < maxAttempts) => ~PollEnded

C9_PollTerminates == []C9_PollShape /\ <>PollEnded

C9_Witness ==
  /\ pollPc = "sleeping" /\ pollLast = "e8121" /\ attempts = 29

\* C9 as stated: rows, job failure and time-out are the only outcomes
C9_Original ==
  (pollConfigured /\ PollEnded) => pollResult \in {"rows", "jobFailed", "timeout"}

(***************************************************************************)
(* C11: at every moment of a sync run the entity tasks that have started   *)
(* their upstream call and not yet finished are at most the domain's       *)
(* worker budget (6 for finance reserve, 20 for procurement and expense    *)
(* paid-out), whatever the number of entities and the order in which the   *)
(* calls settle; no task runs twice; and every task is executed in the     *)
(* end.                                                                    *)
(***************************************************************************)
C11_InFlightWithinBudget ==
  /\ Cardinality(limiter.active) <= (IF limiter.d = "finance" THEN 6 ELSE 20)
  /\ limiter.active \cap limiter.finished = {}
  /\ \A i \in DOMAIN limiter.pending :
       limiter.pending[i] \notin limiter.active \cup limiter.finished

SnapshotOf(r) == IF r = 1 THEN {} ELSE {x.purchId : x \in run[1].finalStore}

\* the valid purchase orders the upstream describes, over all entities
OrdersOffered ==
  LET n(e) == IF WithRetry("procurement", answer[<<e, SyncDate>>].script) = "data"
                THEN Cardinality({i \in DOMAIN answer[<<e, SyncDate>>].data :
                                    answer[<<e, SyncDate>>].data[i].valid})
                ELSE 0
      sum[k \in 0..MaxEntities] == IF k = 0 THEN 0 ELSE sum[k - 1] + n(k)
  IN sum[MaxEntities]

C12_StagedOnceOnly ==
  \A r \in RunIds :
    (domain = "procurement" /\ run[r].pc \in {"tasks", "write", "done"}) =>
      LET staged == run[r].ops
      IN /\ \A i, j \in DOMAIN staged :
              staged[i].purchId = staged[j].purchId => i = j
         /\ \A i \in DOMAIN staged : staged[i].purchId \notin SnapshotOf(r)
         /\ (run[r].pc = "write" \/ (Undisturbed(r) /\ run[r].pc = "done")) =>
              run[r].res.recordsSkipped + Len(staged) = OrdersOffered

C12_Witness ==
  /\ domain = "procurement" /\ Undisturbed(1) /\ Undisturbed(2)
  /\ Len(run[1].ops) = 2 /\ run[1].res.recordsSkipped = 1
  /\ run[2].ops = << >> /\ run[2].res.recordsSkipped = 3

(***************************************************************************)
(* C13: when the token of a sync run cannot be had (the exchange throws,   *)
(* or it gives no token), the run asks the upstream for no data, writes    *)
(* nothing to the collection, and returns failed with the token failure    *)
(* as the only entry of errors.                                            *)
(***************************************************************************)
\* what the collection held when run r began
StoreBefore(r) == IF r = 1 THEN {} ELSE run[1].finalStore

C13_TokenFailureStopsRun ==
  \A r \in RunIds :
    tokenOutcome[r] \in {"null", "throw"} =>
      /\ Done(r)
      /\ run[r].active = {} /\ run[r].pending = << >>
      /\ run[r].records = << >> /\ run[r].ops = << >>
      /\ run[r].finalStore = StoreBefore(r)
      /\ ~run[r].res.success
      /\ run[r].res.entitiesProcessed = 0 /\ run[r].res.recordsSaved = 0
      /\ Len(run[r].res.errors) = 1
      /\ run[r].res.errors[1].kind = "sync"
      /\ run[r].res.errors[1].ref =
           (IF tokenOutcome[r] = "null" THEN "Failed to acquire token"
                                        ELSE "token exchange failed")

C13_Witness ==
  /\ Undisturbed(1) /\ run[1].res.recordsSaved > 0
  /\ Done(2) /\ tokenOutcome[2] = "null" /\ store = run[1].finalStore /\ store # {}

(***************************************************************************)
(* C14: a credential exchange that is rejected (no response, an error      *)
(* status, and for Zoho a body without access_token) fails the request of  *)
(* that caller and leaves cachedToken and tokenExpiry as they were.  The   *)
(* Dynamics cache alone stores what a 200 body without access_token        *)
(* carries: no token and no expiry, and the caller is handed no token.     *)
(* Either way a later request is never answered from the cache with        *)
(* anything but a token that a successful exchange stored.                 *)
(***************************************************************************)
\* the step in which the exchange of caller c settles without a token
ExchangeFails(c) ==
  /\ caller[c].pc = "exchanging" /\ caller[c].resp = "none"
  /\ caller'[c].pc # "exchanging"

AggregateRows == {x \in store : x.entity = NoEntity}

C15_OneAggregateRow ==
  domain = "finance" =>
    \A x, y \in AggregateRows : (x.date = y.date /\ x.src = y.src) => x = y

\* both runs wrote the aggregate of the day: one inserted it, the other
\* updated it or was refused
C15_Witness ==
  /\ domain = "finance" /\ Done(1) /\ Done(2)
  /\ tokenOutcome[1] = "ok" /\ tokenOutcome[2] = "ok"
  /\ Cardinality(AggregateRows) = 1
  /\ Cardinality(store) > 1

(***************************************************************************)
(* C16: after any sequence of sales collection runs no document has both   *)
(* a project and a specialType; every Grand Summary / No Value document    *)
(* has entity = project = null and is the only one of its (specialType,    *)
(* date); every other document has a project and is the only one of its    *)
(* (entity, project, date).                                                *)
(***************************************************************************)
C16_SalesRowShapes ==
  domain = "sales" =>
    \A x \in store :
      /\ ~(x.project # NoProject /\ x.special # "null")
      /\ x.special \in {"null", "Grand Summary", "No Value"}
      /\ x.special # "null" =>
           /\ x.entity = NoEntity /\ x.project = NoProject
           /\ \A y \in store : (y.special = x.special /\ y.date = x.date) => y = x
      /\ x.special = "null" =>
           /\ x.project # NoProject
           /\ \A y \in store :
                (y.special = "null" /\ y.entity = x.entity /\ y.project = x.project
                   /\ y.date = x.date) => y = x

\* the second run met the Grand Summary and the project row of the first
C16_Witness ==
  /\ domain = "sales" /\ Undisturbed(1) /\ Undisturbed(2)
  /\ run[2].res.recordsSaved = 2
  /\ Cardinality(store) = 2
  /\ \E x, y \in store : x.special = "Grand Summary" /\ y.project # NoProject

(***************************************************************************)
(* C17: a finance reserve sync stores one document for each entity whose   *)
(* response arrives and has a total other than zero, and counts that       *)
(* entity as processed; an entity with no data or a zero total gets no     *)
(* document and is not counted; the cross-entity response, when its total  *)
(* is not zero, is stored as the one document with entity = null; and      *)
(* recordsSaved counts the documents written.  With A answering ES 100     *)
(* and NonES 50, B answering nothing and C answering ES 0 and NonES 0:     *)
(* two documents, entitiesProcessed = 1, recordsSaved = 2.                 *)
(***************************************************************************)
\* the upstream's answer for the scope arrives and its amounts do not sum to 0
Reserved(sc) ==
  /\ WithRetry(WrapperOf("finance"), answer[sc].script) = "data"
  /\ SumAmounts(answer[sc].data, BankGroupsIn(answer[sc].data)) # 0

\* the three entities of the example, and the cross-entity response
ReserveExample ==
  /\ answer[<<1, SyncDate>>] = [script |-> AllOk, data |-> BankRowsA]
  /\ answer[<<2, SyncDate>>] = [script |-> AllOk, data |-> << >>]
  /\ answer[<<3, SyncDate>>] = [script |-> AllOk, data |-> BankRowsZero]
  /\ answer[<<NoEntity, SyncDate>>] = [script |-> AllOk, data |-> BankRowsA]

C17_ReserveRowsAndCounts ==
  \A r \in RunIds :
    (domain = "finance" /\ Undisturbed(r)) =>
      LET counted == {e \in EntityIds : Reserved(<<e, SyncDate>>)}
          agg == IF Reserved(<<NoEntity, SyncDate>>) THEN {NoEntity} ELSE {}
          rows == run[r].finalStore
      IN /\ run[r].res.entitiesProcessed = Cardinality(counted)
         /\ run[r].res.recordsSaved = Cardinality(counted) + Cardinality(agg)
         /\ {x.entity : x \in rows} = counted \cup agg
         /\ Cardinality(rows) = Cardinality(counted) + Cardinality(agg)
         /\ ReserveExample =>
              /\ run[r].res.entitiesProcessed = 1 /\ run[r].res.recordsSaved = 2
              /\ \A x \in rows :
                   /\ x.entity \in {1, NoEntity}
                   /\ x.v = [EscrowReserve |-> 100, NonEscrowReserve |-> 50,
                             OtherReserve |-> 0, TotalReserve |-> 150]

C17_Witness ==
  /\ domain = "finance" /\ ReserveExample /\ Undisturbed(1)
  /\ run[1].res.entitiesProcessed = 1 /\ run[1].res.recordsSaved = 2
  /\ Cardinality(run[1].finalStore) = 2

(***************************************************************************)
(* C18: on every trigger the callback calls the six syncs in the order     *)
(* Finance Reserve, Sales Collection, Revenue Reservation, Procurement,    *)
(* Expense Paidout, Instagram; a sync is called only when the result of    *)
(* the one before it has been pushed; a failed result or an exception of   *)
(* one sync keeps no later sync from being called; and the callback ends   *)
(* in the summary, which counts exactly six results.                       *)
(***************************************************************************)
C18_CallbackShape ==
  /\ Len(sched.results) <= Len(SyncNames)
  /\ \A i \in DOMAIN sched.results : sched.results[i].name = SyncNames[i]
  /\ sched.pc \in 1..Len(SyncNames) =>
       /\ sched.started = SubSeq(SyncNames, 1, sched.pc)
       /\ Len(sched.results) = sched.pc - 1
  /\ sched.pc = Len(SyncNames) + 1 =>
       /\ sched.started = SyncNames
       /\ Len(sched.results) = Len(SyncNames)

C18_SixInOrderThenSummary ==
  /\ []C18_CallbackShape
  /\ [][(sched.pc # 0 /\ sched'.pc = 0) =>
          /\ sched'.started = SyncNames
          /\ sched'.summary.total = 6]_vars
  /\ (sched.pc # 0) ~> (sched.pc = 0)

\* a summary after the first, third and fifth sync failed or threw
C18_Witness ==
  /\ sched.pc = 0 /\ sched.triggers > 0
  /\ sched.summary = [total |-> 6, failed |-> 3]
  /\ ~sched.results[1].success /\ ~sched.results[3].success /\ ~sched.results[5].success

(***************************************************************************)
(* C19: the scheduler is started by the server's start-up, so that it is   *)
(* running whenever the server serves requests, and a graceful shutdown    *)
(* stops the scheduler before it closes the HTTP server.                   *)
(***************************************************************************)
C19_SchedulerFollowsServer ==
  /\ server.pc = "listening" => sched.job
  /\ server.pc = "closing" => ~sched.job

(***************************************************************************)
(* C20: with page size P, the sales collection and revenue reservation     *)
(* detail reports count the D distinct dates that match the filters:       *)
(* total = D and totalPages = ceil(D/P).  The expense paidout report       *)
(* counts and pages months: total = M, the distinct months that match,     *)
(* and totalPages = ceil(M/P).  For all three, the date buckets of pages   *)
(* 1..totalPages, put end to end, are every matching date exactly once,    *)
(* latest first, and a page after the last one has no bucket.              *)
(***************************************************************************)
\* the days on which some document passes the filters
MatchingDays ==
  IF RejectsId(detail.id) THEN {}
  ELSE {DateToString(x.date) : x \in Matching(ByDimension(detail.id, detail.docs))}

CeilDiv(n, p) == IF n % p = 0 THEN n \div p ELSE n \div p + 1

StrictlyDescending(seq) == \A i \in 1..(Len(seq) - 1) : seq[i] > seq[i + 1]

C21_MalformedIdShortCircuits ==
  /\ (detail.page >= 1 /\ Trim(detail.id) # << >> /\ ~IsValidObjectId(detail.id))
       => detail.last = EmptyPage /\ detail.queries = 0
  /\ (detail.page >= 1 /\ Trim(detail.id) = << >>)
       => /\ detail.queries = 2 * detail.page
          /\ detail.last.total = GetDetail(detail.ctl, detail.docs, 1, detail.limit).total

\* a malformed id answered with the empty page over a store that has
\* documents passing the other filters
C21_Witness ==
  /\ detail.id = DimensionIds.junk /\ detail.page = 1
  /\ \E x \in detail.docs : x.ok
  /\ detail.last = EmptyPage /\ detail.queries = 0

\* C21 as stated: every non-empty malformed id gets the empty page
C21_Original ==
  (detail.page >= 1 /\ detail.id # << >> /\ ~IsValidObjectId(detail.id))
     => detail.last = EmptyPage /\ detail.queries = 0

NameOf(rec) == Trim(CollapseSpaces(Trim(rec.name)))

\* Grand Summary and No Value rows
Sentinel(name) ==
  \/ MatchesWords(name, <<"n", "o">>, <<"v", "a", "l", "u", "e">>)
  \/ MatchesWords(name, <<"g", "r", "a", "n", "d">>, <<"s", "u", "m", "m", "a", "r", "y">>)

C23_UnknownProjectCreated ==
  \A r \in RunIds :
    (domain = "sales" /\ Undisturbed(r)
       /\ WithRetry(WrapperOf("sales"), answer[<<NoEntity, SyncDate>>].script) = "data") =>
      LET data == answer[<<NoEntity, SyncDate>>].data
      IN \A i \in DOMAIN data :
           (NameOf(data[i]) # << >> /\ ~Sentinel(NameOf(data[i]))) =>
             \E q \in projects :
               /\ ToLowerStr(q.name) = ToLowerStr(NameOf(data[i]))
               /\ \A y \in projects : ToLowerStr(y.name) = ToLowerStr(q.name) => y = q
               /\ \E x \in run[r].finalStore : x.project = q.id

(***************************************************************************)
(* C24: in the sales collection detail view the summary totals (escrow,    *)
(* non-escrow, total) of every returned date bucket are the values of the  *)
(* Grand Summary row stored for that date whenever there is one, with or   *)
(* without a project filter, and are zero only when there is none.         *)
(***************************************************************************)
C24_BucketTotalsFromGrandSummary ==
  (detail.ctl = "sales" /\ detail.page >= 1) =>
    \A i \in DOMAIN detail.last.dates :
      LET grand == {x \in detail.docs : /\ x.special = "Grand Summary"
                                        /\ DateToString(x.date) = detail.last.dates[i]}
          b == detail.last.sums[i]
      IN /\ \A g \in grand :
              /\ b.escrowCollection = g.v.escrowCollection
              /\ b.nonEscrowCollection = g.v.nonEscrowCollection
              /\ b.totalCollection = g.v.escrowCollection + g.v.nonEscrowCollection
         /\ grand = {} => b.totalCollection = 0 /\ b.escrowCollection = 0
                            /\ b.nonEscrowCollection = 0

\* the same, for requests without a project filter
C24_TotalsWithoutFilter == detail.id = << >> => C24_BucketTotalsFromGrandSummary

(***************************************************************************)
(* C25: a stored OTP is single-use: however the verification requests for  *)
(* one (type, identifier) interleave, at most one request presenting the   *)
(* stored code is answered as valid, and after that answer the code is no  *)
(* longer stored.                                                          *)
(***************************************************************************)
C25_OtpSingleUse ==
  LET valid == {r \in Verifiers : otp.req[r].pc = "done" /\ otp.req[r].isValid}
  IN /\ Cardinality(valid) <= 1
     /\ valid # {} => otp.stored = "null"

(***************************************************************************)
(* C26: however the login requests of one (email, client IP) interleave,   *)
(* at most MAX_LOGIN_ATTEMPTS wrong passwords are tried within one lockout *)
(* window: once that many failed attempts are recorded, a login request is *)
(* rejected as locked out, without a password comparison, until the        *)
(* lockout period has passed; a successful login resets the counter.       *)
(***************************************************************************)
C26_LockoutBoundsGuesses ==
  /\ login.tried <= MAX_LOGIN_ATTEMPTS
  /\ \A s \in Logins :
       login.req[s].pc = "compare" => login.tried < MAX_LOGIN_ATTEMPTS

\* the part of C26 that no interleaving breaks: a request that arrives when
\* the count recorded is MAX_LOGIN_ATTEMPTS or more is answered 429 at once
C26_LockedArrivalsRejected ==
  [][\A s \in Logins :
       (login.req[s].pc = "idle" /\ login'.req[s] # login.req[s]
          /\ login.attempts >= MAX_LOGIN_ATTEMPTS)
         => login'.req[s].pc = "idle" /\ login'.req[s].status = 429]_vars

(***************************************************************************)
(* C27: in an expense payout sync, when the upstream fetch of an (entity,  *)
(* date) slice fails (4xx, 500, or every retry attempt fails) or returns   *)
(* nothing, the document already stored for that (entity, date, data       *)
(* source) keeps its metric values.                                        *)
(***************************************************************************)
C27_FailedFetchKeepsValues ==
  domain = "expense" =>
    \A sc \in DOMAIN answer :
      (WithRetry(WrapperOf("expense"), answer[sc].script) # "data" \/ answer[sc].data = << >>)
        => \A x \in store :
             (x.entity = sc[1] /\ x.date = sc[2] /\ x.src = DataSourceOf("expense"))
               => x.v = ExpenseTransform(PaidA, sc[1], sc[2], 0).v

(***************************************************************************)
(* C28: in a procurement sync, also when the bulk insert raises a          *)
(* duplicate-key error because another process inserted some of the same   *)
(* orders and the run falls back to inserting one record at a time,        *)
(* recordsSaved is the number of purchase orders this run added to the     *)
(* store, and recordsSkipped counts only records this run did not add.     *)
(***************************************************************************)
\* the purchase orders run r added: a document carries its run's time stamp
AddedBy(r) == {x \in store : x.at = run[r].stamp}

C28_FallbackCountsOwnInserts ==
  \A r \in RunIds :
    (domain = "procurement" /\ Undisturbed(r)) =>
      /\ run[r].res.recordsSaved = Cardinality(AddedBy(r))
      /\ run[r].res.recordsSkipped + Cardinality(AddedBy(r)) <= OrdersOffered

\* the same without an overlapping run: every sequential run counts right
C28_SequentialCounts == mode = "sequential" => C28_FallbackCountsOwnInserts

(***************************************************************************)
(* C29: in the result list of a scheduled run a domain is recorded with    *)
(* success = true only if its sync completed without an upstream or        *)
(* persistence error; in particular an Instagram sync that met an API      *)
(* error, found no LDP entity, or skipped because the day was already      *)
(* synced is not recorded as a success with one saved record.              *)
(***************************************************************************)
C29_SuccessMeansSynced ==
  \A i \in DOMAIN sched.results :
    (sched.results[i].name = "Instagram" /\ sched.results[i].success) =>
      sched.insta = "saved"

(***************************************************************************)
(* C30: for any sequence of startSyncScheduler and stopSyncScheduler       *)
(* calls, isSchedulerRunning (syncJob !== null) is true exactly when a     *)
(* cron job created by startSyncScheduler is still active, at most one     *)
(* such job is active at a time, and after stopSyncScheduler returns no    *)
(* scheduled sync run is fired until the scheduler is started again.       *)
(***************************************************************************)
C30_RunningIffOneJobActive ==
  /\ sched.job <=> sched.active > 0
  /\ sched.active <= 1
  /\ sched.pc # 0 => ~sched.orphan

====
